---- MODULE Spec2Model ----
(***************************************************************************)
(* A model of the NES emulator core: the 6502 CPU clocked one cycle at a   *)
(* time (src/src/cpu), the bus with its interrupt latches (src/src/bus.rs),*)
(* the emulator loop (src/src/emulator.rs), the PPU tick counter           *)
(* (src/src/ppu/mod.rs) and the APU frame counter (src/src/apu).           *)
(*                                                                         *)
(* Program ROM is an input of the program.  The six vector bytes at        *)
(* $FFFA-$FFFF are kept as state (rom); every other byte the cartridge or  *)
(* a device returns is drawn from a small set at the moment it is read.    *)
(* Work RAM is kept sparsely: an address that is absent holds 0.           *)
(***************************************************************************)
EXTENDS Integers, Sequences, FiniteSets, TLC

VARIABLES cpu, bus, rom, ppu, apu, emu, obs

vars == <<cpu, bus, rom, ppu, apu, emu, obs>>

(***************************************************************************)
(* Bounds of the exploration.                                              *)
(***************************************************************************)
\* CPU clocks explored per run of the CPU specification
MaxCpuCycles == 8
\* CPU clocks explored per run of the emulator-loop specification
MaxEmuCycles == 8
\* APU clocks explored per run of the frame-counter specification
MaxApuCycles == 60000
\* number of $4017 writes per run
MaxWrites == 1
\* number of Cpu::reset calls per run, the one after construction included
MaxResets == 2
\* a $4017 write happens while fewer than this many APU clocks have elapsed
WriteWindow == 2
\* APU clocks explored per run of the write-delay specification
MaxWindowCycles == 29840
\* number of $4017 writes per run of the write-delay specification
MaxWindowWrites == 2
\* APU clocks and register writes per run of the channel specification
MaxChanClocks == 8
MaxChanWrites == 4
\* $4016 reads explored after one strobe
MaxPadReads == 10
\* calls of Ppu::tick explored: two frames and two ticks more
MaxPpuTicks == 178686
\* $2002 reads explored between two ticks
MaxStatusReads == 2
\* PPU port accesses explored per run of the data-port specification
MaxDataOps == 6
\* PPU port accesses explored per run of the palette specification
MaxPalOps == 5
\* bus writes explored per run of the OAM-DMA specification
MaxOamOps == 4
\* CPU cycles explored per run of the OAM-DMA scheduling specification
MaxDmaCycles == 9
\* PRG and CHR bank counts of the ROM images handed to Cartridge::load
MaxPrgBanks == 2
MaxChrBanks == 1
\* calls of Ppu::tick explored by the status-clear specification: one frame
\* and one scanline more
MaxClearTicks == 89683
\* register accesses explored per run of the write-latch specification
MaxLatchOps == 4
\* calls of Ppu::tick and writes of $2000 explored by the NMI re-arm
\* specification: up to the pre-render clear and one instruction more
MaxNmiTicks == 89020
MaxNmiWrites == 2
\* calls of the interrupt-latch methods of the bus explored per run
MaxCycleClocks == 9

MaxDmcClocks == 830

MaxIrqCycles == 29836

MaxRewriteClocks == 10

MaxRewrites == 3

MaxVblTicks == 171540

MaxVblReads == 2

MaxDmcWrites == 4

DmcWriteWindow == 2

MaxLineOps == 6

(***************************************************************************)
(* Bytes, words and bit flags.                                             *)
(***************************************************************************)
Byte == 0..255

W8(n) == n % 256

W16(n) == n % 65536

\* f is a single-bit mask
HasBit(v, f) == (v \div f) % 2 = 1

InsertBit(v, f) == IF HasBit(v, f) THEN v ELSE v + f

RemoveBit(v, f) == IF HasBit(v, f) THEN v - f ELSE v

SetBit(v, f, c) == IF c THEN InsertBit(v, f) ELSE RemoveBit(v, f)

\* value as i8
AsI8(b) == IF b >= 128 THEN b - 256 ELSE b

Word(lo, hi) == hi * 256 + lo

HiByte(w) == (w \div 256) % 256

LoByte(w) == w % 256

Page(w) == w \div 256

\* StatusFlags
CARRY == 1
ZERO == 2
INTERRUPT_DISABLE == 4
DECIMAL_MODE == 8
BREAK_COMMAND == 16
UNUSED == 32
OVERFLOW == 64
NEGATIVE == 128

STACK == 256
STACK_RESET == 253

NMI_VECTOR == 65530
RESET_VECTOR == 65532
IRQ_VECTOR == 65534

RAM_END == 8191
RAM_MASK == 2047
PRG_ROM == 32768

(***************************************************************************)
(* Inputs.                                                                 *)
(***************************************************************************)
\* the opcodes the explored programs are made of
ModelledOpcodes ==
  { 0, 8, 32, 40, 64, 72, 76, 88, 96, 104, 120, 149, 154, 162,
    169, 189, 208, 234, 240 }

\* operand and data bytes supplied by ROM and devices
DataBytes == { 0, 16, 255 }

\* the ROM images: the words stored at the three vectors
Image1 == [nmi |-> 36864, reset |-> 32768, irq |-> 40960]

Image2 == [nmi |-> 37119, reset |-> 49406, irq |-> 41215]

VectorImages == { Image1, Image2 }

RomOf(img) ==
  [ad \in NMI_VECTOR..65535 |->
     CASE ad = NMI_VECTOR -> LoByte(img.nmi)
       [] ad = NMI_VECTOR + 1 -> HiByte(img.nmi)
       [] ad = RESET_VECTOR -> LoByte(img.reset)
       [] ad = RESET_VECTOR + 1 -> HiByte(img.reset)
       [] ad = IRQ_VECTOR -> LoByte(img.irq)
       [] OTHER -> HiByte(img.irq)]

(***************************************************************************)
(* Bus.  m is the machine: m.cpu the Cpu fields, m.bus the Bus fields,     *)
(* m.rom the vector bytes.  inp is the byte the cartridge or device        *)
(* supplies should the address be theirs.                                  *)
(***************************************************************************)
RamAt(ram, ad) == IF ad \in DOMAIN ram THEN ram[ad] ELSE 0

RamPut(ram, ad, v) ==
  IF v = 0
  THEN [q \in (DOMAIN ram) \ {ad} |-> ram[q]]
  ELSE [q \in (DOMAIN ram) \cup {ad} |-> IF q = ad THEN v ELSE ram[q]]

\* Bus::read
BusRead(m, address, inp) ==
  LET ad == IF address >= 8200 /\ address <= 16383
            THEN 8192 + (address % 8) ELSE address
  IN CASE ad <= RAM_END -> RamAt(m.bus.ram, ad % (RAM_MASK + 1))
       [] ad \in {8194, 8196, 8199} -> inp
       [] ad = 16406 -> inp
       [] ad >= PRG_ROM -> IF ad \in DOMAIN m.rom THEN m.rom[ad] ELSE inp
       [] OTHER -> 0

\* Bus::write; the PPU and controller registers are outside this machine
BusWrite(m, address, value) ==
  IF address <= RAM_END
  THEN [m EXCEPT !.bus.ram = RamPut(@, address % (RAM_MASK + 1), value)]
  ELSE m

\* Bus::trigger_nmi
trigger_nmi(b) == [b EXCEPT !.nmi_pending = TRUE]

\* Bus::trigger_irq
trigger_irq(b) == [b EXCEPT !.irq_pending = TRUE]

\* Bus::poll_nmi: the machine after the poll; the result is the old latch
poll_nmi(m) == [m EXCEPT !.bus.nmi_pending = FALSE]

\* Bus::poll_irq taking the NMI latch with it
poll_irq_clearing_both(m) ==
  [m EXCEPT !.bus.irq_pending = FALSE, !.bus.nmi_pending = FALSE]

\* Bus::poll_irq
poll_irq(m) == [m EXCEPT !.bus.irq_pending = FALSE]

(***************************************************************************)
(* CPU helpers (src/src/cpu/mod.rs).                                       *)
(***************************************************************************)
read_u16(m, address, inp) ==
  Word(BusRead(m, address, inp[1]), BusRead(m, W16(address + 1), inp[2]))

stack_push(m, value) ==
  LET m1 == BusWrite(m, STACK + m.cpu.sp, value)
  IN [m1 EXCEPT !.cpu.sp = W8(m.cpu.sp + 255)]

stack_push_u16(m, value) ==
  stack_push(stack_push(m, HiByte(value)), LoByte(value))

\* stack_pop: the machine after the pop and the byte popped
stack_pop(m) ==
  LET sp1 == W8(m.cpu.sp + 1)
  IN [m |-> [m EXCEPT !.cpu.sp = sp1], v |-> BusRead(m, STACK + sp1, 0)]

stack_pop_u16(m) ==
  LET p1 == stack_pop(m)
      p2 == stack_pop(p1.m)
  IN [m |-> p2.m, v |-> Word(p1.v, p2.v)]

set_zero_and_negative_flags(m, value) ==
  [m EXCEPT !.cpu.status =
     SetBit(SetBit(@, ZERO, value = 0), NEGATIVE, HasBit(value, 128))]

set_register_a(m, value) ==
  set_zero_and_negative_flags([m EXCEPT !.cpu.a = value], value)

set_register_x(m, value) ==
  set_zero_and_negative_flags([m EXCEPT !.cpu.x = value], value)

\* the bonus cycle an instruction adds to cycles_remaining
AddCycles(m, n) == [m EXCEPT !.cpu.cycles_remaining = @ + n]

handle_interrupt_nocycles(m, interrupt_vector) ==
  LET m1 == stack_push_u16(m, m.cpu.pc)
      st == InsertBit(RemoveBit(m.cpu.status, BREAK_COMMAND), UNUSED)
      m2 == stack_push(m1, st)
      m3 == [m2 EXCEPT !.cpu.status = InsertBit(@, INTERRUPT_DISABLE)]
  IN [m3 EXCEPT !.cpu.pc = read_u16(m3, interrupt_vector, <<0, 0>>)]

handle_interrupt_6(m, interrupt_vector) ==
  [handle_interrupt_nocycles(m, interrupt_vector)
     EXCEPT !.cpu.cycles_remaining = 6]

\* Cpu::handle_interrupt
handle_interrupt(m, interrupt_vector) ==
  [handle_interrupt_nocycles(m, interrupt_vector)
     EXCEPT !.cpu.cycles_remaining = 7]

handle_interrupts_ignoring_i(m) ==
  IF m.bus.nmi_pending
  THEN handle_interrupt(poll_nmi(m), NMI_VECTOR)
  ELSE IF m.bus.irq_pending
       THEN handle_interrupt(poll_irq(m), IRQ_VECTOR)
       ELSE poll_irq(poll_nmi(m))

\* Cpu::handle_interrupts
handle_interrupts(m) ==
  IF m.bus.nmi_pending
  THEN handle_interrupt(poll_nmi(m), NMI_VECTOR)
  ELSE IF m.bus.irq_pending /\ ~HasBit(m.cpu.status, INTERRUPT_DISABLE)
       THEN handle_interrupt(poll_irq(poll_nmi(m)), IRQ_VECTOR)
       ELSE poll_irq(poll_nmi(m))

(***************************************************************************)
(* Addressing (src/src/cpu/addressing.rs).  inp[1], inp[2] are the operand *)
(* bytes and inp[3] the data byte, should they come from ROM or a device.  *)
(***************************************************************************)
get_operand_address(m, mode, pc, inp) ==
  CASE mode \in {"Implied", "Accumulator"} -> [addr |-> 0, crossed |-> FALSE]
    [] mode = "Immediate" -> [addr |-> pc, crossed |-> FALSE]
    [] mode = "ZeroPage" ->
         [addr |-> BusRead(m, pc, inp[1]), crossed |-> FALSE]
    [] mode = "ZeroPageX" ->
         [addr |-> W8(BusRead(m, pc, inp[1]) + m.cpu.x), crossed |-> FALSE]
    [] mode = "ZeroPageY" ->
         [addr |-> W8(BusRead(m, pc, inp[1]) + m.cpu.x), crossed |-> FALSE]
    [] mode = "Absolute" ->
         [addr |-> read_u16(m, pc, inp), crossed |-> FALSE]
    [] mode = "AbsoluteX" ->
         LET base == read_u16(m, pc, inp)
             address == W16(base + m.cpu.x)
         IN [addr |-> address, crossed |-> Page(base) # Page(address)]
    [] mode = "AbsoluteY" ->
         LET base == read_u16(m, pc, inp)
             address == W16(base + m.cpu.y)
         IN [addr |-> address, crossed |-> Page(base) # Page(address)]

\* Cpu::read_operand: the value read and whether a page was crossed
read_operand(m, mode, pc, inp) ==
  CASE mode = "Accumulator" -> [v |-> m.cpu.a, crossed |-> FALSE]
    [] mode = "Immediate" -> [v |-> BusRead(m, pc, inp[1]), crossed |-> FALSE]
    [] OTHER ->
         LET r == get_operand_address(m, mode, pc, inp)
         IN [v |-> BusRead(m, r.addr, inp[3]), crossed |-> r.crossed]

(***************************************************************************)
(* Instructions (src/src/cpu/instructions.rs).                             *)
(***************************************************************************)
Op(i, md, b, c) == [instruction |-> i, mode |-> md, bytes |-> b, cycles |-> c]

\* Cpu::decode_opcode
decode_opcode(opcode) ==
  CASE opcode = 0 -> Op("BRK", "Implied", 2, 7)
    [] opcode = 1 -> Op("ORA", "IndirectX", 2, 6)
    [] opcode = 5 -> Op("ORA", "ZeroPage", 2, 3)
    [] opcode = 6 -> Op("ASL", "ZeroPage", 2, 5)
    [] opcode = 8 -> Op("PHP", "Implied", 1, 3)
    [] opcode = 9 -> Op("ORA", "Immediate", 2, 2)
    [] opcode = 10 -> Op("ASL", "Accumulator", 1, 2)
    [] opcode = 13 -> Op("ORA", "Absolute", 3, 4)
    [] opcode = 14 -> Op("ASL", "Absolute", 3, 6)
    [] opcode = 16 -> Op("BPL", "Relative", 2, 2)
    [] opcode = 17 -> Op("ORA", "IndirectY", 2, 5)
    [] opcode = 21 -> Op("ORA", "ZeroPageX", 2, 4)
    [] opcode = 22 -> Op("ASL", "ZeroPageX", 2, 6)
    [] opcode = 24 -> Op("CLC", "Implied", 1, 2)
    [] opcode = 25 -> Op("ORA", "AbsoluteY", 3, 4)
    [] opcode = 29 -> Op("ORA", "AbsoluteX", 3, 4)
    [] opcode = 30 -> Op("ASL", "AbsoluteX", 3, 7)
    [] opcode = 32 -> Op("JSR", "Absolute", 3, 6)
    [] opcode = 33 -> Op("AND", "IndirectX", 2, 6)
    [] opcode = 36 -> Op("BIT", "ZeroPage", 2, 3)
    [] opcode = 37 -> Op("AND", "ZeroPage", 2, 3)
    [] opcode = 38 -> Op("ROL", "ZeroPage", 2, 5)
    [] opcode = 40 -> Op("PLP", "Implied", 1, 4)
    [] opcode = 41 -> Op("AND", "Immediate", 2, 2)
    [] opcode = 42 -> Op("ROL", "Accumulator", 1, 2)
    [] opcode = 44 -> Op("BIT", "Absolute", 3, 4)
    [] opcode = 45 -> Op("AND", "Absolute", 3, 4)
    [] opcode = 46 -> Op("ROL", "Absolute", 3, 6)
    [] opcode = 48 -> Op("BMI", "Relative", 2, 2)
    [] opcode = 49 -> Op("AND", "IndirectY", 2, 5)
    [] opcode = 53 -> Op("AND", "ZeroPageX", 2, 4)
    [] opcode = 54 -> Op("ROL", "ZeroPageX", 2, 6)
    [] opcode = 56 -> Op("SEC", "Implied", 1, 2)
    [] opcode = 57 -> Op("AND", "AbsoluteY", 3, 4)
    [] opcode = 61 -> Op("AND", "AbsoluteX", 3, 4)
    [] opcode = 62 -> Op("ROL", "AbsoluteX", 3, 7)
    [] opcode = 64 -> Op("RTI", "Implied", 1, 6)
    [] opcode = 65 -> Op("EOR", "IndirectX", 2, 6)
    [] opcode = 69 -> Op("EOR", "ZeroPage", 2, 3)
    [] opcode = 70 -> Op("LSR", "ZeroPage", 2, 5)
    [] opcode = 72 -> Op("PHA", "Implied", 1, 3)
    [] opcode = 73 -> Op("EOR", "Immediate", 2, 2)
    [] opcode = 74 -> Op("LSR", "Accumulator", 1, 2)
    [] opcode = 76 -> Op("JMP", "Absolute", 3, 3)
    [] opcode = 77 -> Op("EOR", "Absolute", 3, 4)
    [] opcode = 78 -> Op("LSR", "Absolute", 3, 6)
    [] opcode = 80 -> Op("BVC", "Relative", 2, 2)
    [] opcode = 81 -> Op("EOR", "IndirectY", 2, 5)
    [] opcode = 85 -> Op("EOR", "ZeroPageX", 2, 4)
    [] opcode = 86 -> Op("LSR", "ZeroPageX", 2, 6)
    [] opcode = 88 -> Op("CLI", "Implied", 1, 2)
    [] opcode = 89 -> Op("EOR", "AbsoluteY", 3, 4)
    [] opcode = 93 -> Op("EOR", "AbsoluteX", 3, 4)
    [] opcode = 94 -> Op("LSR", "AbsoluteX", 3, 7)
    [] opcode = 96 -> Op("RTS", "Implied", 1, 6)
    [] opcode = 97 -> Op("ADC", "IndirectX", 2, 6)
    [] opcode = 101 -> Op("ADC", "ZeroPage", 2, 3)
    [] opcode = 102 -> Op("ROR", "ZeroPage", 2, 5)
    [] opcode = 104 -> Op("PLA", "Implied", 1, 4)
    [] opcode = 105 -> Op("ADC", "Immediate", 2, 2)
    [] opcode = 106 -> Op("ROR", "Accumulator", 1, 2)
    [] opcode = 108 -> Op("JMP", "Indirect", 3, 5)
    [] opcode = 109 -> Op("ADC", "Absolute", 3, 4)
    [] opcode = 110 -> Op("ROR", "Absolute", 3, 6)
    [] opcode = 112 -> Op("BVS", "Relative", 2, 2)
    [] opcode = 113 -> Op("ADC", "IndirectY", 2, 5)
    [] opcode = 117 -> Op("ADC", "ZeroPageX", 2, 4)
    [] opcode = 118 -> Op("ROR", "ZeroPageX", 2, 6)
    [] opcode = 120 -> Op("SEI", "Implied", 1, 2)
    [] opcode = 121 -> Op("ADC", "AbsoluteY", 3, 4)
    [] opcode = 125 -> Op("ADC", "AbsoluteX", 3, 4)
    [] opcode = 126 -> Op("ROR", "AbsoluteX", 3, 7)
    [] opcode = 129 -> Op("STA", "IndirectX", 2, 6)
    [] opcode = 132 -> Op("STY", "ZeroPage", 2, 3)
    [] opcode = 133 -> Op("STA", "ZeroPage", 2, 3)
    [] opcode = 134 -> Op("STX", "ZeroPage", 2, 3)
    [] opcode = 136 -> Op("DEY", "Implied", 1, 2)
    [] opcode = 138 -> Op("TXA", "Implied", 1, 2)
    [] opcode = 140 -> Op("STY", "Absolute", 3, 4)
    [] opcode = 141 -> Op("STA", "Absolute", 3, 4)
    [] opcode = 142 -> Op("STX", "Absolute", 3, 4)
    [] opcode = 144 -> Op("BCC", "Relative", 2, 2)
    [] opcode = 145 -> Op("STA", "IndirectY", 2, 6)
    [] opcode = 148 -> Op("STY", "ZeroPageX", 2, 4)
    [] opcode = 149 -> Op("STA", "ZeroPageX", 2, 4)
    [] opcode = 150 -> Op("STX", "ZeroPageY", 2, 4)
    [] opcode = 152 -> Op("TYA", "Implied", 1, 2)
    [] opcode = 153 -> Op("STA", "AbsoluteY", 3, 5)
    [] opcode = 154 -> Op("TXS", "Implied", 1, 2)
    [] opcode = 157 -> Op("STA", "AbsoluteX", 3, 5)
    [] opcode = 160 -> Op("LDY", "Immediate", 2, 2)
    [] opcode = 161 -> Op("LDA", "IndirectX", 2, 6)
    [] opcode = 162 -> Op("LDX", "Immediate", 2, 2)
    [] opcode = 164 -> Op("LDY", "ZeroPage", 2, 3)
    [] opcode = 165 -> Op("LDA", "ZeroPage", 2, 3)
    [] opcode = 166 -> Op("LDX", "ZeroPage", 2, 2)
    [] opcode = 168 -> Op("TAY", "Implied", 1, 2)
    [] opcode = 169 -> Op("LDA", "Immediate", 2, 2)
    [] opcode = 170 -> Op("TAX", "Implied", 1, 2)
    [] opcode = 172 -> Op("LDY", "Absolute", 3, 4)
    [] opcode = 173 -> Op("LDA", "Absolute", 3, 4)
    [] opcode = 174 -> Op("LDX", "Absolute", 3, 4)
    [] opcode = 176 -> Op("BCS", "Relative", 2, 2)
    [] opcode = 177 -> Op("LDA", "IndirectY", 2, 5)
    [] opcode = 180 -> Op("LDY", "ZeroPageX", 2, 4)
    [] opcode = 181 -> Op("LDA", "ZeroPageX", 2, 4)
    [] opcode = 182 -> Op("LDX", "ZeroPageY", 2, 3)
    [] opcode = 184 -> Op("CLV", "Implied", 1, 2)
    [] opcode = 185 -> Op("LDA", "AbsoluteY", 3, 4)
    [] opcode = 186 -> Op("TSX", "Implied", 1, 2)
    [] opcode = 188 -> Op("LDY", "AbsoluteX", 3, 4)
    [] opcode = 189 -> Op("LDA", "AbsoluteX", 3, 4)
    [] opcode = 190 -> Op("LDX", "AbsoluteY", 3, 4)
    [] opcode = 192 -> Op("CPY", "Immediate", 2, 2)
    [] opcode = 193 -> Op("CMP", "IndirectX", 2, 6)
    [] opcode = 196 -> Op("CPY", "ZeroPage", 2, 3)
    [] opcode = 197 -> Op("CMP", "ZeroPage", 2, 3)
    [] opcode = 198 -> Op("DEC", "ZeroPage", 2, 5)
    [] opcode = 200 -> Op("INY", "Implied", 1, 2)
    [] opcode = 201 -> Op("CMP", "Immediate", 2, 2)
    [] opcode = 202 -> Op("DEX", "Implied", 1, 2)
    [] opcode = 204 -> Op("CPY", "Absolute", 3, 4)
    [] opcode = 205 -> Op("CMP", "Absolute", 3, 4)
    [] opcode = 206 -> Op("DEC", "Absolute", 3, 6)
    [] opcode = 208 -> Op("BNE", "Relative", 2, 2)
    [] opcode = 209 -> Op("CMP", "IndirectY", 2, 5)
    [] opcode = 213 -> Op("CMP", "ZeroPageX", 2, 4)
    [] opcode = 214 -> Op("DEC", "ZeroPageX", 2, 6)
    [] opcode = 216 -> Op("CLD", "Implied", 1, 2)
    [] opcode = 217 -> Op("CMP", "AbsoluteY", 3, 4)
    [] opcode = 221 -> Op("CMP", "AbsoluteX", 3, 4)
    [] opcode = 222 -> Op("DEC", "AbsoluteX", 3, 7)
    [] opcode = 224 -> Op("CPX", "Immediate", 2, 2)
    [] opcode = 225 -> Op("SBC", "IndirectX", 2, 6)
    [] opcode = 228 -> Op("CPX", "ZeroPage", 2, 3)
    [] opcode = 229 -> Op("SBC", "ZeroPage", 2, 3)
    [] opcode = 230 -> Op("INC", "ZeroPage", 2, 5)
    [] opcode = 232 -> Op("INX", "Implied", 1, 2)
    [] opcode = 233 -> Op("SBC", "Immediate", 2, 2)
    [] opcode = 234 -> Op("NOP", "Implied", 1, 2)
    [] opcode = 236 -> Op("CPX", "Absolute", 3, 4)
    [] opcode = 237 -> Op("SBC", "Absolute", 3, 4)
    [] opcode = 238 -> Op("INC", "Absolute", 3, 6)
    [] opcode = 240 -> Op("BEQ", "Relative", 2, 2)
    [] opcode = 241 -> Op("SBC", "IndirectY", 2, 5)
    [] opcode = 245 -> Op("SBC", "ZeroPageX", 2, 4)
    [] opcode = 246 -> Op("INC", "ZeroPageX", 2, 6)
    [] opcode = 248 -> Op("SED", "Implied", 1, 2)
    [] opcode = 249 -> Op("SBC", "AbsoluteY", 3, 4)
    [] opcode = 253 -> Op("SBC", "AbsoluteX", 3, 4)
    [] opcode = 254 -> Op("INC", "AbsoluteX", 3, 7)
    [] OTHER -> Op("XXX", "Implied", 1, 1)

\* Opcode::new: one entry of the opcode table
Opcode(mnemonic, instruction, mode, size_bytes, cycles, page_cross, branch_taken) ==
  [mnemonic |-> mnemonic, instruction |-> instruction, mode |-> mode,
   size_bytes |-> size_bytes, cycles |-> cycles,
   additional_cycle_on_page_cross |-> page_cross,
   additional_cycle_on_branch_taken |-> branch_taken]

\* OPCODES, indexed by the opcode byte
OPCODES(opcode) ==
  CASE opcode = 0 -> Opcode("BRK", "BRK", "Implied", 2, 7, FALSE, FALSE)
    [] opcode = 1 -> Opcode("ORA", "ORA", "IndirectX", 2, 6, FALSE, FALSE)
    [] opcode = 2 -> Opcode("KIL", "KIL", "Implied", 1, 1, FALSE, FALSE)
    [] opcode = 3 -> Opcode("SLO", "SLO", "IndirectX", 2, 8, FALSE, FALSE)
    [] opcode = 4 -> Opcode("DOP", "DOP", "ZeroPage", 2, 3, FALSE, FALSE)
    [] opcode = 5 -> Opcode("ORA", "ORA", "ZeroPage", 2, 3, FALSE, FALSE)
    [] opcode = 6 -> Opcode("ASL", "ASL", "ZeroPage", 2, 5, FALSE, FALSE)
    [] opcode = 7 -> Opcode("SLO", "SLO", "ZeroPage", 2, 5, FALSE, FALSE)
    [] opcode = 8 -> Opcode("PHP", "PHP", "Implied", 1, 3, FALSE, FALSE)
    [] opcode = 9 -> Opcode("ORA", "ORA", "Immediate", 2, 2, FALSE, FALSE)
    [] opcode = 10 -> Opcode("ASL", "ASL", "Accumulator", 1, 2, FALSE, FALSE)
    [] opcode = 11 -> Opcode("AAC", "AAC", "Immediate", 2, 2, FALSE, FALSE)
    [] opcode = 12 -> Opcode("TOP", "TOP", "Absolute", 3, 4, FALSE, FALSE)
    [] opcode = 13 -> Opcode("ORA", "ORA", "Absolute", 3, 4, FALSE, FALSE)
    [] opcode = 14 -> Opcode("ASL", "ASL", "Absolute", 3, 6, FALSE, FALSE)
    [] opcode = 15 -> Opcode("SLO", "SLO", "Absolute", 3, 6, FALSE, FALSE)
    [] opcode = 16 -> Opcode("BPL", "BPL", "Relative", 2, 2, TRUE, TRUE)
    [] opcode = 17 -> Opcode("ORA", "ORA", "IndirectY", 2, 5, TRUE, FALSE)
    [] opcode = 18 -> Opcode("KIL", "KIL", "Implied", 1, 1, FALSE, FALSE)
    [] opcode = 19 -> Opcode("SLO", "SLO", "IndirectY", 2, 8, FALSE, FALSE)
    [] opcode = 20 -> Opcode("DOP", "DOP", "ZeroPageX", 2, 4, FALSE, FALSE)
    [] opcode = 21 -> Opcode("ORA", "ORA", "ZeroPageX", 2, 4, FALSE, FALSE)
    [] opcode = 22 -> Opcode("ASL", "ASL", "ZeroPageX", 2, 6, FALSE, FALSE)
    [] opcode = 23 -> Opcode("SLO", "SLO", "ZeroPageX", 2, 6, FALSE, FALSE)
    [] opcode = 24 -> Opcode("CLC", "CLC", "Implied", 1, 2, FALSE, FALSE)
    [] opcode = 25 -> Opcode("ORA", "ORA", "AbsoluteY", 3, 4, TRUE, FALSE)
    [] opcode = 26 -> Opcode("NOP", "NOP", "Implied", 1, 2, FALSE, FALSE)
    [] opcode = 27 -> Opcode("SLO", "SLO", "AbsoluteY", 3, 7, FALSE, FALSE)
    [] opcode = 28 -> Opcode("TOP", "TOP", "AbsoluteX", 3, 4, TRUE, FALSE)
    [] opcode = 29 -> Opcode("ORA", "ORA", "AbsoluteX", 3, 4, TRUE, FALSE)
    [] opcode = 30 -> Opcode("ASL", "ASL", "AbsoluteX", 3, 7, FALSE, FALSE)
    [] opcode = 31 -> Opcode("SLO", "SLO", "AbsoluteX", 3, 7, FALSE, FALSE)
    [] opcode = 32 -> Opcode("JSR", "JSR", "Absolute", 3, 6, FALSE, FALSE)
    [] opcode = 33 -> Opcode("AND", "AND", "IndirectX", 2, 6, FALSE, FALSE)
    [] opcode = 34 -> Opcode("KIL", "KIL", "Implied", 1, 1, FALSE, FALSE)
    [] opcode = 35 -> Opcode("RLA", "RLA", "IndirectX", 2, 8, FALSE, FALSE)
    [] opcode = 36 -> Opcode("BIT", "BIT", "ZeroPage", 2, 3, FALSE, FALSE)
    [] opcode = 37 -> Opcode("AND", "AND", "ZeroPage", 2, 3, FALSE, FALSE)
    [] opcode = 38 -> Opcode("ROL", "ROL", "ZeroPage", 2, 5, FALSE, FALSE)
    [] opcode = 39 -> Opcode("RLA", "RLA", "ZeroPage", 2, 5, FALSE, FALSE)
    [] opcode = 40 -> Opcode("PLP", "PLP", "Implied", 1, 4, FALSE, FALSE)
    [] opcode = 41 -> Opcode("AND", "AND", "Immediate", 2, 2, FALSE, FALSE)
    [] opcode = 42 -> Opcode("ROL", "ROL", "Accumulator", 1, 2, FALSE, FALSE)
    [] opcode = 43 -> Opcode("AAC", "AAC", "Immediate", 2, 2, FALSE, FALSE)
    [] opcode = 44 -> Opcode("BIT", "BIT", "Absolute", 3, 4, FALSE, FALSE)
    [] opcode = 45 -> Opcode("AND", "AND", "Absolute", 3, 4, FALSE, FALSE)
    [] opcode = 46 -> Opcode("ROL", "ROL", "Absolute", 3, 6, FALSE, FALSE)
    [] opcode = 47 -> Opcode("RLA", "RLA", "Absolute", 3, 6, FALSE, FALSE)
    [] opcode = 48 -> Opcode("BMI", "BMI", "Relative", 2, 2, TRUE, TRUE)
    [] opcode = 49 -> Opcode("AND", "AND", "IndirectY", 2, 5, TRUE, FALSE)
    [] opcode = 50 -> Opcode("KIL", "KIL", "Implied", 1, 1, FALSE, FALSE)
    [] opcode = 51 -> Opcode("RLA", "RLA", "IndirectY", 2, 8, FALSE, FALSE)
    [] opcode = 52 -> Opcode("DOP", "DOP", "ZeroPageX", 2, 4, FALSE, FALSE)
    [] opcode = 53 -> Opcode("AND", "AND", "ZeroPageX", 2, 4, FALSE, FALSE)
    [] opcode = 54 -> Opcode("ROL", "ROL", "ZeroPageX", 2, 6, FALSE, FALSE)
    [] opcode = 55 -> Opcode("RLA", "RLA", "ZeroPageX", 2, 6, FALSE, FALSE)
    [] opcode = 56 -> Opcode("SEC", "SEC", "Implied", 1, 2, FALSE, FALSE)
    [] opcode = 57 -> Opcode("AND", "AND", "AbsoluteY", 3, 4, TRUE, FALSE)
    [] opcode = 58 -> Opcode("NOP", "NOP", "Implied", 1, 2, FALSE, FALSE)
    [] opcode = 59 -> Opcode("RLA", "RLA", "AbsoluteY", 3, 7, FALSE, FALSE)
    [] opcode = 60 -> Opcode("TOP", "TOP", "AbsoluteX", 3, 4, TRUE, FALSE)
    [] opcode = 61 -> Opcode("AND", "AND", "AbsoluteX", 3, 4, TRUE, FALSE)
    [] opcode = 62 -> Opcode("ROL", "ROL", "AbsoluteX", 3, 7, FALSE, FALSE)
    [] opcode = 63 -> Opcode("RLA", "RLA", "AbsoluteX", 3, 7, FALSE, FALSE)
    [] opcode = 64 -> Opcode("RTI", "RTI", "Implied", 1, 6, FALSE, FALSE)
    [] opcode = 65 -> Opcode("EOR", "EOR", "IndirectX", 2, 6, FALSE, FALSE)
    [] opcode = 66 -> Opcode("KIL", "KIL", "Implied", 1, 1, FALSE, FALSE)
    [] opcode = 67 -> Opcode("SRE", "SRE", "IndirectX", 2, 8, FALSE, FALSE)
    [] opcode = 68 -> Opcode("DOP", "DOP", "ZeroPage", 2, 3, FALSE, FALSE)
    [] opcode = 69 -> Opcode("EOR", "EOR", "ZeroPage", 2, 3, FALSE, FALSE)
    [] opcode = 70 -> Opcode("LSR", "LSR", "ZeroPage", 2, 5, FALSE, FALSE)
    [] opcode = 71 -> Opcode("SRE", "SRE", "ZeroPage", 2, 5, FALSE, FALSE)
    [] opcode = 72 -> Opcode("PHA", "PHA", "Implied", 1, 3, FALSE, FALSE)
    [] opcode = 73 -> Opcode("EOR", "EOR", "Immediate", 2, 2, FALSE, FALSE)
    [] opcode = 74 -> Opcode("LSR", "LSR", "Accumulator", 1, 2, FALSE, FALSE)
    [] opcode = 75 -> Opcode("ASR", "ASR", "Immediate", 2, 2, FALSE, FALSE)
    [] opcode = 76 -> Opcode("JMP", "JMP", "Absolute", 3, 3, FALSE, FALSE)
    [] opcode = 77 -> Opcode("EOR", "EOR", "Absolute", 3, 4, FALSE, FALSE)
    [] opcode = 78 -> Opcode("LSR", "LSR", "Absolute", 3, 6, FALSE, FALSE)
    [] opcode = 79 -> Opcode("SRE", "SRE", "Absolute", 3, 6, FALSE, FALSE)
    [] opcode = 80 -> Opcode("BVC", "BVC", "Relative", 2, 2, TRUE, TRUE)
    [] opcode = 81 -> Opcode("EOR", "EOR", "IndirectY", 2, 5, TRUE, FALSE)
    [] opcode = 82 -> Opcode("KIL", "KIL", "Implied", 1, 1, FALSE, FALSE)
    [] opcode = 83 -> Opcode("SRE", "SRE", "IndirectY", 2, 8, FALSE, FALSE)
    [] opcode = 84 -> Opcode("DOP", "DOP", "ZeroPageX", 2, 4, FALSE, FALSE)
    [] opcode = 85 -> Opcode("EOR", "EOR", "ZeroPageX", 2, 4, FALSE, FALSE)
    [] opcode = 86 -> Opcode("LSR", "LSR", "ZeroPageX", 2, 6, FALSE, FALSE)
    [] opcode = 87 -> Opcode("SRE", "SRE", "ZeroPageX", 2, 6, FALSE, FALSE)
    [] opcode = 88 -> Opcode("CLI", "CLI", "Implied", 1, 2, FALSE, FALSE)
    [] opcode = 89 -> Opcode("EOR", "EOR", "AbsoluteY", 3, 4, TRUE, FALSE)
    [] opcode = 90 -> Opcode("NOP", "NOP", "Implied", 1, 2, FALSE, FALSE)
    [] opcode = 91 -> Opcode("SRE", "SRE", "AbsoluteY", 3, 7, FALSE, FALSE)
    [] opcode = 92 -> Opcode("TOP", "TOP", "AbsoluteX", 3, 4, TRUE, FALSE)
    [] opcode = 93 -> Opcode("EOR", "EOR", "AbsoluteX", 3, 4, TRUE, FALSE)
    [] opcode = 94 -> Opcode("LSR", "LSR", "AbsoluteX", 3, 7, FALSE, FALSE)
    [] opcode = 95 -> Opcode("SRE", "SRE", "AbsoluteX", 3, 7, FALSE, FALSE)
    [] opcode = 96 -> Opcode("RTS", "RTS", "Implied", 1, 6, FALSE, FALSE)
    [] opcode = 97 -> Opcode("ADC", "ADC", "IndirectX", 2, 6, FALSE, FALSE)
    [] opcode = 98 -> Opcode("KIL", "KIL", "Implied", 1, 1, FALSE, FALSE)
    [] opcode = 99 -> Opcode("RRA", "RRA", "IndirectX", 2, 8, FALSE, FALSE)
    [] opcode = 100 -> Opcode("DOP", "DOP", "ZeroPage", 2, 3, FALSE, FALSE)
    [] opcode = 101 -> Opcode("ADC", "ADC", "ZeroPage", 2, 3, FALSE, FALSE)
    [] opcode = 102 -> Opcode("ROR", "ROR", "ZeroPage", 2, 5, FALSE, FALSE)
    [] opcode = 103 -> Opcode("RRA", "RRA", "ZeroPage", 2, 5, FALSE, FALSE)
    [] opcode = 104 -> Opcode("PLA", "PLA", "Implied", 1, 4, FALSE, FALSE)
    [] opcode = 105 -> Opcode("ADC", "ADC", "Immediate", 2, 2, FALSE, FALSE)
    [] opcode = 106 -> Opcode("ROR", "ROR", "Accumulator", 1, 2, FALSE, FALSE)
    [] opcode = 107 -> Opcode("ARR", "ARR", "Immediate", 2, 2, FALSE, FALSE)
    [] opcode = 108 -> Opcode("JMP", "JMP", "Indirect", 3, 5, FALSE, FALSE)
    [] opcode = 109 -> Opcode("ADC", "ADC", "Absolute", 3, 4, FALSE, FALSE)
    [] opcode = 110 -> Opcode("ROR", "ROR", "Absolute", 3, 6, FALSE, FALSE)
    [] opcode = 111 -> Opcode("RRA", "RRA", "Absolute", 3, 6, FALSE, FALSE)
    [] opcode = 112 -> Opcode("BVS", "BVS", "Relative", 2, 2, TRUE, TRUE)
    [] opcode = 113 -> Opcode("ADC", "ADC", "IndirectY", 2, 5, TRUE, FALSE)
    [] opcode = 114 -> Opcode("KIL", "KIL", "Implied", 1, 1, FALSE, FALSE)
    [] opcode = 115 -> Opcode("RRA", "RRA", "IndirectY", 2, 8, FALSE, FALSE)
    [] opcode = 116 -> Opcode("DOP", "DOP", "ZeroPageX", 2, 4, FALSE, FALSE)
    [] opcode = 117 -> Opcode("ADC", "ADC", "ZeroPageX", 2, 4, FALSE, FALSE)
    [] opcode = 118 -> Opcode("ROR", "ROR", "ZeroPageX", 2, 6, FALSE, FALSE)
    [] opcode = 119 -> Opcode("RRA", "RRA", "ZeroPageX", 2, 6, FALSE, FALSE)
    [] opcode = 120 -> Opcode("SEI", "SEI", "Implied", 1, 2, FALSE, FALSE)
    [] opcode = 121 -> Opcode("ADC", "ADC", "AbsoluteY", 3, 4, TRUE, FALSE)
    [] opcode = 122 -> Opcode("NOP", "NOP", "Implied", 1, 2, FALSE, FALSE)
    [] opcode = 123 -> Opcode("RRA", "RRA", "AbsoluteY", 3, 7, FALSE, FALSE)
    [] opcode = 124 -> Opcode("TOP", "TOP", "AbsoluteX", 3, 4, TRUE, FALSE)
    [] opcode = 125 -> Opcode("ADC", "ADC", "AbsoluteX", 3, 4, TRUE, FALSE)
    [] opcode = 126 -> Opcode("ROR", "ROR", "AbsoluteX", 3, 7, FALSE, FALSE)
    [] opcode = 127 -> Opcode("RRA", "RRA", "AbsoluteX", 3, 7, FALSE, FALSE)
    [] opcode = 128 -> Opcode("DOP", "DOP", "Immediate", 2, 2, FALSE, FALSE)
    [] opcode = 129 -> Opcode("STA", "STA", "IndirectX", 2, 6, FALSE, FALSE)
    [] opcode = 130 -> Opcode("DOP", "DOP", "Immediate", 2, 2, FALSE, FALSE)
    [] opcode = 131 -> Opcode("AAX", "AAX", "IndirectX", 2, 6, FALSE, FALSE)
    [] opcode = 132 -> Opcode("STY", "STY", "ZeroPage", 2, 3, FALSE, FALSE)
    [] opcode = 133 -> Opcode("STA", "STA", "ZeroPage", 2, 3, FALSE, FALSE)
    [] opcode = 134 -> Opcode("STX", "STX", "ZeroPage", 2, 3, FALSE, FALSE)
    [] opcode = 135 -> Opcode("AAX", "AAX", "ZeroPage", 2, 3, FALSE, FALSE)
    [] opcode = 136 -> Opcode("DEY", "DEY", "Implied", 1, 2, FALSE, FALSE)
    [] opcode = 137 -> Opcode("DOP", "DOP", "Immediate", 2, 2, FALSE, FALSE)
    [] opcode = 138 -> Opcode("TXA", "TXA", "Implied", 1, 2, FALSE, FALSE)
    [] opcode = 139 -> Opcode("XAA", "XAA", "Immediate", 2, 2, FALSE, FALSE)
    [] opcode = 140 -> Opcode("STY", "STY", "Absolute", 3, 4, FALSE, FALSE)
    [] opcode = 141 -> Opcode("STA", "STA", "Absolute", 3, 4, FALSE, FALSE)
    [] opcode = 142 -> Opcode("STX", "STX", "Absolute", 3, 4, FALSE, FALSE)
    [] opcode = 143 -> Opcode("AAX", "AAX", "Absolute", 3, 4, FALSE, FALSE)
    [] opcode = 144 -> Opcode("BCC", "BCC", "Relative", 2, 2, TRUE, TRUE)
    [] opcode = 145 -> Opcode("STA", "STA", "IndirectY", 2, 6, FALSE, FALSE)
    [] opcode = 146 -> Opcode("KIL", "KIL", "Implied", 1, 1, FALSE, FALSE)
    [] opcode = 147 -> Opcode("AXA", "AXA", "IndirectY", 2, 6, FALSE, FALSE)
    [] opcode = 148 -> Opcode("STY", "STY", "ZeroPageX", 2, 4, FALSE, FALSE)
    [] opcode = 149 -> Opcode("STA", "STA", "ZeroPageX", 2, 4, FALSE, FALSE)
    [] opcode = 150 -> Opcode("STX", "STX", "ZeroPageY", 2, 4, FALSE, FALSE)
    [] opcode = 151 -> Opcode("AAX", "AAX", "ZeroPageY", 2, 4, FALSE, FALSE)
    [] opcode = 152 -> Opcode("TYA", "TYA", "Implied", 1, 2, FALSE, FALSE)
    [] opcode = 153 -> Opcode("STA", "STA", "AbsoluteY", 3, 5, FALSE, FALSE)
    [] opcode = 154 -> Opcode("TXS", "TXS", "Implied", 1, 2, FALSE, FALSE)
    [] opcode = 155 -> Opcode("XAS", "XAS", "AbsoluteY", 3, 5, FALSE, FALSE)
    [] opcode = 156 -> Opcode("SYA", "SYA", "AbsoluteX", 3, 5, FALSE, FALSE)
    [] opcode = 157 -> Opcode("STA", "STA", "AbsoluteX", 3, 5, FALSE, FALSE)
    [] opcode = 158 -> Opcode("SXA", "SXA", "AbsoluteY", 3, 5, FALSE, FALSE)
    [] opcode = 159 -> Opcode("AXA", "AXA", "AbsoluteY", 3, 5, FALSE, FALSE)
    [] opcode = 160 -> Opcode("LDY", "LDY", "Immediate", 2, 2, FALSE, FALSE)
    [] opcode = 161 -> Opcode("LDA", "LDA", "IndirectX", 2, 6, FALSE, FALSE)
    [] opcode = 162 -> Opcode("LDX", "LDX", "Immediate", 2, 2, FALSE, FALSE)
    [] opcode = 163 -> Opcode("LAX", "LAX", "IndirectX", 2, 6, FALSE, FALSE)
    [] opcode = 164 -> Opcode("LDY", "LDY", "ZeroPage", 2, 3, FALSE, FALSE)
    [] opcode = 165 -> Opcode("LDA", "LDA", "ZeroPage", 2, 3, FALSE, FALSE)
    [] opcode = 166 -> Opcode("LDX", "LDX", "ZeroPage", 2, 3, FALSE, FALSE)
    [] opcode = 167 -> Opcode("LAX", "LAX", "ZeroPage", 2, 3, FALSE, FALSE)
    [] opcode = 168 -> Opcode("TAY", "TAY", "Implied", 1, 2, FALSE, FALSE)
    [] opcode = 169 -> Opcode("LDA", "LDA", "Immediate", 2, 2, FALSE, FALSE)
    [] opcode = 170 -> Opcode("TAX", "TAX", "Implied", 1, 2, FALSE, FALSE)
    [] opcode = 171 -> Opcode("ATX", "ATX", "Immediate", 2, 2, FALSE, FALSE)
    [] opcode = 172 -> Opcode("LDY", "LDY", "Absolute", 3, 4, FALSE, FALSE)
    [] opcode = 173 -> Opcode("LDA", "LDA", "Absolute", 3, 4, FALSE, FALSE)
    [] opcode = 174 -> Opcode("LDX", "LDX", "Absolute", 3, 4, FALSE, FALSE)
    [] opcode = 175 -> Opcode("LAX", "LAX", "Absolute", 3, 4, FALSE, FALSE)
    [] opcode = 176 -> Opcode("BCS", "BCS", "Relative", 2, 2, TRUE, TRUE)
    [] opcode = 177 -> Opcode("LDA", "LDA", "IndirectY", 2, 5, TRUE, FALSE)
    [] opcode = 178 -> Opcode("KIL", "KIL", "Implied", 1, 1, FALSE, FALSE)
    [] opcode = 179 -> Opcode("LAX", "LAX", "IndirectY", 2, 5, TRUE, FALSE)
    [] opcode = 180 -> Opcode("LDY", "LDY", "ZeroPageX", 2, 4, FALSE, FALSE)
    [] opcode = 181 -> Opcode("LDA", "LDA", "ZeroPageX", 2, 4, FALSE, FALSE)
    [] opcode = 182 -> Opcode("LDX", "LDX", "ZeroPageY", 2, 4, FALSE, FALSE)
    [] opcode = 183 -> Opcode("LAX", "LAX", "ZeroPageY", 2, 4, FALSE, FALSE)
    [] opcode = 184 -> Opcode("CLV", "CLV", "Implied", 1, 2, FALSE, FALSE)
    [] opcode = 185 -> Opcode("LDA", "LDA", "AbsoluteY", 3, 4, TRUE, FALSE)
    [] opcode = 186 -> Opcode("TSX", "TSX", "Implied", 1, 2, FALSE, FALSE)
    [] opcode = 187 -> Opcode("LAR", "LAR", "AbsoluteY", 3, 4, TRUE, FALSE)
    [] opcode = 188 -> Opcode("LDY", "LDY", "AbsoluteX", 3, 4, TRUE, FALSE)
    [] opcode = 189 -> Opcode("LDA", "LDA", "AbsoluteX", 3, 4, TRUE, FALSE)
    [] opcode = 190 -> Opcode("LDX", "LDX", "AbsoluteY", 3, 4, TRUE, FALSE)
    [] opcode = 191 -> Opcode("LAX", "LAX", "AbsoluteY", 3, 4, TRUE, FALSE)
    [] opcode = 192 -> Opcode("CPY", "CPY", "Immediate", 2, 2, FALSE, FALSE)
    [] opcode = 193 -> Opcode("CMP", "CMP", "IndirectX", 2, 6, FALSE, FALSE)
    [] opcode = 194 -> Opcode("DOP", "DOP", "Immediate", 2, 2, FALSE, FALSE)
    [] opcode = 195 -> Opcode("DCP", "DCP", "IndirectX", 2, 8, FALSE, FALSE)
    [] opcode = 196 -> Opcode("CPY", "CPY", "ZeroPage", 2, 3, FALSE, FALSE)
    [] opcode = 197 -> Opcode("CMP", "CMP", "ZeroPage", 2, 3, FALSE, FALSE)
    [] opcode = 198 -> Opcode("DEC", "DEC", "ZeroPage", 2, 5, FALSE, FALSE)
    [] opcode = 199 -> Opcode("DCP", "DCP", "ZeroPage", 2, 5, FALSE, FALSE)
    [] opcode = 200 -> Opcode("INY", "INY", "Implied", 1, 2, FALSE, FALSE)
    [] opcode = 201 -> Opcode("CMP", "CMP", "Immediate", 2, 2, FALSE, FALSE)
    [] opcode = 202 -> Opcode("DEX", "DEX", "Implied", 1, 2, FALSE, FALSE)
    [] opcode = 203 -> Opcode("AXS", "AXS", "Immediate", 2, 2, FALSE, FALSE)
    [] opcode = 204 -> Opcode("CPY", "CPY", "Absolute", 3, 4, FALSE, FALSE)
    [] opcode = 205 -> Opcode("CMP", "CMP", "Absolute", 3, 4, FALSE, FALSE)
    [] opcode = 206 -> Opcode("DEC", "DEC", "Absolute", 3, 6, FALSE, FALSE)
    [] opcode = 207 -> Opcode("DCP", "DCP", "Absolute", 3, 6, FALSE, FALSE)
    [] opcode = 208 -> Opcode("BNE", "BNE", "Relative", 2, 2, TRUE, TRUE)
    [] opcode = 209 -> Opcode("CMP", "CMP", "IndirectY", 2, 5, TRUE, FALSE)
    [] opcode = 210 -> Opcode("KIL", "KIL", "Implied", 1, 1, FALSE, FALSE)
    [] opcode = 211 -> Opcode("DCP", "DCP", "IndirectY", 2, 8, FALSE, FALSE)
    [] opcode = 212 -> Opcode("DOP", "DOP", "ZeroPageX", 2, 4, FALSE, FALSE)
    [] opcode = 213 -> Opcode("CMP", "CMP", "ZeroPageX", 2, 4, FALSE, FALSE)
    [] opcode = 214 -> Opcode("DEC", "DEC", "ZeroPageX", 2, 6, FALSE, FALSE)
    [] opcode = 215 -> Opcode("DCP", "DCP", "ZeroPageX", 2, 6, FALSE, FALSE)
    [] opcode = 216 -> Opcode("CLD", "CLD", "Implied", 1, 2, FALSE, FALSE)
    [] opcode = 217 -> Opcode("CMP", "CMP", "AbsoluteY", 3, 4, TRUE, FALSE)
    [] opcode = 218 -> Opcode("NOP", "NOP", "Implied", 1, 2, FALSE, FALSE)
    [] opcode = 219 -> Opcode("DCP", "DCP", "AbsoluteY", 3, 7, FALSE, FALSE)
    [] opcode = 220 -> Opcode("TOP", "TOP", "AbsoluteX", 3, 4, TRUE, FALSE)
    [] opcode = 221 -> Opcode("CMP", "CMP", "AbsoluteX", 3, 4, TRUE, FALSE)
    [] opcode = 222 -> Opcode("DEC", "DEC", "AbsoluteX", 3, 7, FALSE, FALSE)
    [] opcode = 223 -> Opcode("DCP", "DCP", "AbsoluteX", 3, 7, FALSE, FALSE)
    [] opcode = 224 -> Opcode("CPX", "CPX", "Immediate", 2, 2, FALSE, FALSE)
    [] opcode = 225 -> Opcode("SBC", "SBC", "IndirectX", 2, 6, FALSE, FALSE)
    [] opcode = 226 -> Opcode("DOP", "DOP", "Immediate", 2, 2, FALSE, FALSE)
    [] opcode = 227 -> Opcode("ISC", "ISC", "IndirectX", 2, 8, FALSE, FALSE)
    [] opcode = 228 -> Opcode("CPX", "CPX", "ZeroPage", 2, 3, FALSE, FALSE)
    [] opcode = 229 -> Opcode("SBC", "SBC", "ZeroPage", 2, 3, FALSE, FALSE)
    [] opcode = 230 -> Opcode("INC", "INC", "ZeroPage", 2, 5, FALSE, FALSE)
    [] opcode = 231 -> Opcode("ISC", "ISC", "ZeroPage", 2, 5, FALSE, FALSE)
    [] opcode = 232 -> Opcode("INX", "INX", "Implied", 1, 2, FALSE, FALSE)
    [] opcode = 233 -> Opcode("SBC", "SBC", "Immediate", 2, 2, FALSE, FALSE)
    [] opcode = 234 -> Opcode("NOP", "NOP", "Implied", 1, 2, FALSE, FALSE)
    [] opcode = 235 -> Opcode("SBC", "SBC", "Immediate", 2, 2, FALSE, FALSE)
    [] opcode = 236 -> Opcode("CPX", "CPX", "Absolute", 3, 4, FALSE, FALSE)
    [] opcode = 237 -> Opcode("SBC", "SBC", "Absolute", 3, 4, FALSE, FALSE)
    [] opcode = 238 -> Opcode("INC", "INC", "Absolute", 3, 6, FALSE, FALSE)
    [] opcode = 239 -> Opcode("ISC", "ISC", "Absolute", 3, 6, FALSE, FALSE)
    [] opcode = 240 -> Opcode("BEQ", "BEQ", "Relative", 2, 2, TRUE, TRUE)
    [] opcode = 241 -> Opcode("SBC", "SBC", "IndirectY", 2, 5, TRUE, FALSE)
    [] opcode = 242 -> Opcode("KIL", "KIL", "Implied", 1, 1, FALSE, FALSE)
    [] opcode = 243 -> Opcode("ISC", "ISC", "IndirectY", 2, 8, FALSE, FALSE)
    [] opcode = 244 -> Opcode("DOP", "DOP", "ZeroPageX", 2, 4, FALSE, FALSE)
    [] opcode = 245 -> Opcode("SBC", "SBC", "ZeroPageX", 2, 4, FALSE, FALSE)
    [] opcode = 246 -> Opcode("INC", "INC", "ZeroPageX", 2, 6, FALSE, FALSE)
    [] opcode = 247 -> Opcode("ISC", "ISC", "ZeroPageX", 2, 6, FALSE, FALSE)
    [] opcode = 248 -> Opcode("SED", "SED", "Implied", 1, 2, FALSE, FALSE)
    [] opcode = 249 -> Opcode("SBC", "SBC", "AbsoluteY", 3, 4, TRUE, FALSE)
    [] opcode = 250 -> Opcode("NOP", "NOP", "Implied", 1, 2, FALSE, FALSE)
    [] opcode = 251 -> Opcode("ISC", "ISC", "AbsoluteY", 3, 7, FALSE, FALSE)
    [] opcode = 252 -> Opcode("TOP", "TOP", "AbsoluteX", 3, 4, TRUE, FALSE)
    [] opcode = 253 -> Opcode("SBC", "SBC", "AbsoluteX", 3, 4, TRUE, FALSE)
    [] opcode = 254 -> Opcode("INC", "INC", "AbsoluteX", 3, 7, FALSE, FALSE)
    [] opcode = 255 -> Opcode("ISC", "ISC", "AbsoluteX", 3, 7, FALSE, FALSE)

is_control_flow_instruction(instruction) ==
  instruction \in {"JMP", "JSR", "RTS", "BCC", "BCS", "BEQ", "BMI", "BNE",
                   "BPL", "BVC", "BVS", "BRK", "RTI"}

lda(m, mode, operand_pc, inp) ==
  LET r == read_operand(m, mode, operand_pc, inp)
      m1 == set_register_a(m, r.v)
  IN IF r.crossed THEN AddCycles(m1, 1) ELSE m1

ldx(m, mode, operand_pc, inp) ==
  LET r == read_operand(m, mode, operand_pc, inp)
      m1 == set_register_x(m, r.v)
  IN IF r.crossed THEN AddCycles(m1, 1) ELSE m1

sta(m, mode, operand_pc, inp) ==
  BusWrite(m, get_operand_address(m, mode, operand_pc, inp).addr, m.cpu.a)

tsx(m) == set_zero_and_negative_flags([m EXCEPT !.cpu.x = m.cpu.sp], m.cpu.sp)

txs(m) == [m EXCEPT !.cpu.sp = m.cpu.x]

pha(m) == stack_push(m, m.cpu.a)

php(m) == stack_push(m, InsertBit(m.cpu.status, BREAK_COMMAND))

pla(m) == LET p == stack_pop(m) IN set_register_a(p.m, p.v)

plp_keeping_b(m) ==
  LET p == stack_pop(m) IN [p.m EXCEPT !.cpu.status = p.v]

plp(m) ==
  LET p == stack_pop(m)
  IN [p.m EXCEPT !.cpu.status = RemoveBit(p.v, BREAK_COMMAND)]

jmp(m, mode, operand_pc, inp) ==
  [m EXCEPT !.cpu.pc = get_operand_address(m, mode, operand_pc, inp).addr]

jsr(m, mode, operand_pc, inp) ==
  LET target_address == get_operand_address(m, mode, operand_pc, inp).addr
      m1 == stack_push_u16(m, W16(m.cpu.pc + 1))
  IN [m1 EXCEPT !.cpu.pc = target_address]

rts(m) ==
  LET p == stack_pop_u16(m) IN [p.m EXCEPT !.cpu.pc = W16(p.v + 1)]

branch_if(m, operand_pc, condition, inp) ==
  IF condition
  THEN LET offset == AsI8(BusRead(m, operand_pc, inp[1]))
           branch_base_address == W16(operand_pc + 1)
           target_address == W16(branch_base_address + offset + 65536)
           page_crossed == Page(branch_base_address) # Page(target_address)
       IN AddCycles([m EXCEPT !.cpu.pc = target_address],
                    IF page_crossed THEN 2 ELSE 1)
  ELSE [m EXCEPT !.cpu.pc = W16(operand_pc + 1)]

brk(m) ==
  LET m0 == [m EXCEPT !.cpu.pc = W16(@ + 1)]
      m1 == stack_push_u16(m0, m0.cpu.pc)
      st == InsertBit(InsertBit(m.cpu.status, BREAK_COMMAND), UNUSED)
      m2 == stack_push(m1, st)
      m3 == [m2 EXCEPT !.cpu.status = InsertBit(@, INTERRUPT_DISABLE)]
  IN [m3 EXCEPT !.cpu.pc = read_u16(m3, IRQ_VECTOR, <<0, 0>>)]

rti(m) ==
  LET p == stack_pop(m)
      m1 == [p.m EXCEPT !.cpu.status =
               InsertBit(RemoveBit(p.v, BREAK_COMMAND), UNUSED)]
      q == stack_pop_u16(m1)
  IN [q.m EXCEPT !.cpu.pc = q.v]

\* Cpu::execute_instruction
execute_instruction(m, op, operand_pc, inp) ==
  LET i == op.instruction
      st == m.cpu.status
  IN CASE i = "LDA" -> lda(m, op.mode, operand_pc, inp)
       [] i = "LDX" -> ldx(m, op.mode, operand_pc, inp)
       [] i = "STA" -> sta(m, op.mode, operand_pc, inp)
       [] i = "TSX" -> tsx(m)
       [] i = "TXS" -> txs(m)
       [] i = "PHA" -> pha(m)
       [] i = "PHP" -> php(m)
       [] i = "PLA" -> pla(m)
       [] i = "PLP" -> plp(m)
       [] i = "JMP" -> jmp(m, op.mode, operand_pc, inp)
       [] i = "JSR" -> jsr(m, op.mode, operand_pc, inp)
       [] i = "RTS" -> rts(m)
       [] i = "BEQ" -> branch_if(m, operand_pc, HasBit(st, ZERO), inp)
       [] i = "BNE" -> branch_if(m, operand_pc, ~HasBit(st, ZERO), inp)
       [] i = "CLC" -> [m EXCEPT !.cpu.status = RemoveBit(@, CARRY)]
       [] i = "CLI" -> [m EXCEPT !.cpu.status = RemoveBit(@, INTERRUPT_DISABLE)]
       [] i = "SEC" -> [m EXCEPT !.cpu.status = InsertBit(@, CARRY)]
       [] i = "SEI" -> [m EXCEPT !.cpu.status = InsertBit(@, INTERRUPT_DISABLE)]
       [] i = "BRK" -> brk(m)
       [] i = "RTI" -> rti(m)
       [] OTHER -> m

NoInstruction == [some |-> FALSE, op |-> Op("NOP", "Implied", 1, 2), operand_pc |-> 0]

\* the fetch of Cpu::clock: opcode byte, decode, operand pre-advance
Fetch(m, fb) ==
  LET opcode == BusRead(m, m.cpu.pc, fb)
      op == decode_opcode(opcode)
      operand_pc == W16(m.cpu.pc + 1)
      pc1 == IF is_control_flow_instruction(op.instruction)
             THEN operand_pc ELSE W16(operand_pc + op.bytes - 1)
  IN [m EXCEPT !.cpu.pc = pc1,
               !.cpu.cycles_remaining = op.cycles,
               !.cpu.current_instruction =
                 [some |-> TRUE, op |-> op, operand_pc |-> operand_pc]]

\* the countdown and commit of Cpu::clock
Commit(m, inp) ==
  LET m1 == [m EXCEPT !.cpu.cycles_remaining = @ - 1]
      ci == m1.cpu.current_instruction
      m2 == IF m1.cpu.cycles_remaining = 0 /\ ci.some
            THEN execute_instruction(
                   [m1 EXCEPT !.cpu.current_instruction = NoInstruction],
                   ci.op, ci.operand_pc, inp)
            ELSE m1
  IN [m2 EXCEPT !.cpu.cycles = @ + 1]

clock_polling_in_flight(m, fb, inp) ==
  LET m1 == IF m.cpu.cycles_remaining = 0 \/ ~m.cpu.current_instruction.some
            THEN handle_interrupts(m) ELSE m
      m2 == IF m1.cpu.cycles_remaining = 0 THEN Fetch(m1, fb) ELSE m1
  IN Commit(m2, inp)

\* Cpu::clock
clock(m, fb, inp) ==
  LET m1 == IF m.cpu.cycles_remaining = 0 THEN handle_interrupts(m) ELSE m
      m2 == IF m1.cpu.cycles_remaining = 0 THEN Fetch(m1, fb) ELSE m1
  IN Commit(m2, inp)

\* the opcode the next fetch of Cpu::clock would decode
NextOpcode(m, fb) ==
  LET m1 == handle_interrupts(m) IN BusRead(m1, m1.cpu.pc, fb)

\* Cpu::new
CpuNew ==
  [pc |-> 0, sp |-> STACK_RESET, a |-> 0, x |-> 0, y |-> 0,
   status |-> INTERRUPT_DISABLE + UNUSED, cycles |-> 0,
   current_instruction |-> NoInstruction, cycles_remaining |-> 0]

(***************************************************************************)
(* Controller (src/src/joypad.rs).  button_states is the byte of the      *)
(* JoypadButton flag set.                                                  *)
(***************************************************************************)
BUTTON_A == 1
BUTTON_B == 2
BUTTON_SELECT == 4
BUTTON_START == 8
BUTTON_UP == 16
BUTTON_DOWN == 32
BUTTON_LEFT == 64
BUTTON_RIGHT == 128

\* Joypad::new
JoypadNew == [strobe |-> FALSE, button_index |-> 0, button_states |-> 0]

\* Joypad::write
joypad_write(j, value) ==
  [j EXCEPT !.strobe = (value % 2 = 1),
            !.button_index = IF value % 2 = 1 THEN 0 ELSE @]

\* Joypad::read: the Joypad after the read and the byte returned
joypad_read(j) ==
  IF j.button_index > 7
  THEN [j |-> j, response |-> 1]
  ELSE [j |-> IF ~j.strobe THEN [j EXCEPT !.button_index = @ + 1] ELSE j,
        response |-> (j.button_states \div (2 ^ j.button_index)) % 2]

\* Joypad::set_button_state
set_button_state(j, button, pressed) ==
  [j EXCEPT !.button_states =
     IF pressed THEN IF HasBit(@, button) THEN @ ELSE @ + button
     ELSE IF HasBit(@, button) THEN @ - button ELSE @]

\* Bus::new
BusNew ==
  [ram |-> <<>>, nmi_pending |-> FALSE, irq_pending |-> FALSE,
   joypad_1 |-> JoypadNew]

\* Cpu::reset
reset(m) ==
  LET m1 == [m EXCEPT !.cpu.a = 0, !.cpu.x = 0, !.cpu.y = 0,
                      !.cpu.status = INTERRUPT_DISABLE + UNUSED]
  IN [m1 EXCEPT !.cpu.pc = read_u16(m1, RESET_VECTOR, <<0, 0>>)]

Machine == [cpu |-> cpu, bus |-> bus, rom |-> rom]

(***************************************************************************)
(* PPU timing (src/src/ppu/mod.rs).  p is the Ppu; oam_data is kept        *)
(* sparsely like work RAM.                                                 *)
(***************************************************************************)
SPRITE_OVERFLOW == 32
SPRITE_0_HIT == 64
VBLANK_STARTED == 128
GENERATE_NMI == 128
SHOW_SPRITES == 16

LastCycle == 340
LastScanline == 261
VBlankScanline == 241

\* PpuAddrRegister::new
AddrNew == [hi |-> 0, lo |-> 0, latch |-> TRUE]

\* PpuAddrRegister::get
addr_get(ar) == ar.hi * 256 + ar.lo

\* PpuAddrRegister::set
addr_set(ar, value) ==
  [ar EXCEPT !.hi = (value \div 256) % 256, !.lo = value % 256]

\* no clamp
addr_unclamped(ar) == ar

\* the clamp to 14 bits both PpuAddrRegister::update and ::increment end with
addr_clamp(ar) ==
  IF addr_get(ar) > 16383 THEN addr_set(ar, addr_get(ar) % 16384) ELSE ar

\* PpuAddrRegister::update
addr_update(ar, value) ==
  LET a1 == IF ar.latch THEN [ar EXCEPT !.hi = value]
            ELSE [ar EXCEPT !.lo = value]
  IN [addr_clamp(a1) EXCEPT !.latch = ~ar.latch]

\* PpuAddrRegister::increment
addr_increment(ar, increment) ==
  LET lo1 == W8(ar.lo + increment)
      a1 == [ar EXCEPT !.lo = lo1,
                       !.hi = IF ar.lo > lo1 THEN W8(@ + 1) ELSE @]
  IN addr_clamp(a1)

\* PpuCtrlRegister::vram_add_increment
vram_add_increment(ctrl) == IF HasBit(ctrl, 4) THEN 32 ELSE 1

(***************************************************************************)
(* The cartridge as the PPU sees it (src/src/cartridge/mod.rs with mapper  *)
(* 0): the mirroring Cartridge::load took from the header and the CHR      *)
(* bytes, kept sparsely like work RAM.  chr_banks = 0 means CHR-RAM.       *)
(***************************************************************************)
Mirrorings == {"Horizontal", "Vertical", "FourScreen"}

CartridgeNew == [mirroring |-> "Horizontal", chr_banks |-> 1, chr |-> <<>>]

\* Cartridge::ppu_read
cartridge_ppu_read(c, address) == RamAt(c.chr, address)

\* Cartridge::ppu_write
cartridge_ppu_write(c, address, value) ==
  IF c.chr_banks = 0
  THEN [c EXCEPT !.chr = RamPut(@, address, value)] ELSE c

VramSize == 2048

\* Ppu::mirror_vram_address
mirror_vram_address(p, address) ==
  LET vram_index == (address % 12288) - 8192
      name_table == vram_index \div 1024
      mirroring == p.cartridge.mirroring
  IN IF (mirroring = "Vertical" /\ name_table \in {2, 3})
        \/ (mirroring = "Horizontal" /\ name_table = 3)
     THEN vram_index - 2048
     ELSE IF mirroring = "Horizontal" /\ name_table \in {1, 2}
          THEN vram_index - 1024
          ELSE vram_index

\* Ppu::new
PpuNew ==
  [ctrl |-> 0, mask |-> 0, status |-> 0, scroll_x |-> 0, scroll_y |-> 0,
   oam_addr |-> 0, oam_data |-> <<>>, cycle |-> 0, scanline |-> 0,
   frame |-> 0,
   nmi_occurred |-> FALSE, nmi_output |-> FALSE, nmi_previous |-> FALSE,
   render_scroll_x |-> 0, render_scroll_y |-> 0,
   render_nametable_addr |-> 8192,
   scroll_latch |-> TRUE, addr |-> AddrNew, internal_data_buffer |-> 0,
   vram |-> <<>>, palette_table |-> <<>>, cartridge |-> CartridgeNew]

nametable_addr(ctrl) == 8192 + 1024 * (ctrl % 4)

is_sprite_0_hit(p, cycle) ==
  /\ RamAt(p.oam_data, 0) = p.scanline /\ RamAt(p.oam_data, 3) <= cycle
  /\ HasBit(p.mask, SHOW_SPRITES)

set_vblank(p) ==
  [p EXCEPT !.status = InsertBit(@, VBLANK_STARTED), !.nmi_occurred = TRUE]

clear_vblank(p) ==
  [p EXCEPT !.status = RemoveBit(@, VBLANK_STARTED), !.nmi_occurred = FALSE]

update_nmi_output(p) ==
  [p EXCEPT !.nmi_output = p.nmi_occurred /\ HasBit(p.ctrl, GENERATE_NMI)]

tick_short_frame(p) ==
  LET p1 == [p EXCEPT !.cycle = @ + 1]
      wrap == p1.cycle > LastCycle
      p2 == IF wrap /\ is_sprite_0_hit(p1, p1.cycle)
            THEN [p1 EXCEPT !.status = InsertBit(@, SPRITE_0_HIT)] ELSE p1
      p3 == IF wrap
            THEN [p2 EXCEPT !.cycle = 0, !.scanline = @ + 1] ELSE p2
      p4 == IF wrap /\ p3.scanline = VBlankScanline
            THEN set_vblank(
                   [p3 EXCEPT !.render_scroll_x = p3.scroll_x,
                              !.render_scroll_y = p3.scroll_y,
                              !.render_nametable_addr = nametable_addr(p3.ctrl),
                              !.status = RemoveBit(@, SPRITE_0_HIT)])
            ELSE IF wrap /\ p3.scanline > LastScanline - 1
                 THEN [p3 EXCEPT !.scanline = 0, !.frame = @ + 1]
                 ELSE p3
      new_frame == wrap /\ p3.scanline # VBlankScanline
                        /\ p3.scanline > LastScanline - 1
      p5 == IF p4.scanline = LastScanline /\ p4.cycle = 1
            THEN clear_vblank(
                   [p4 EXCEPT !.status =
                      RemoveBit(RemoveBit(@, SPRITE_OVERFLOW), SPRITE_0_HIT)])
            ELSE p4
  IN [p |-> update_nmi_output(p5), new_frame |-> new_frame]

\* Ppu::tick without the clearing of scanline 261, cycle 1
tick_without_pre_render_clear(p) ==
  LET p1 == [p EXCEPT !.cycle = @ + 1]
      wrap == p1.cycle > LastCycle
      p2 == IF wrap /\ is_sprite_0_hit(p1, p1.cycle)
            THEN [p1 EXCEPT !.status = InsertBit(@, SPRITE_0_HIT)] ELSE p1
      p3 == IF wrap
            THEN [p2 EXCEPT !.cycle = 0, !.scanline = @ + 1] ELSE p2
      p4 == IF wrap /\ p3.scanline = VBlankScanline
            THEN set_vblank(
                   [p3 EXCEPT !.render_scroll_x = p3.scroll_x,
                              !.render_scroll_y = p3.scroll_y,
                              !.render_nametable_addr = nametable_addr(p3.ctrl),
                              !.status = RemoveBit(@, SPRITE_0_HIT)])
            ELSE IF wrap /\ p3.scanline > LastScanline
                 THEN [p3 EXCEPT !.scanline = 0, !.frame = @ + 1]
                 ELSE p3
      new_frame == wrap /\ p3.scanline # VBlankScanline
                        /\ p3.scanline > LastScanline
  IN [p |-> update_nmi_output(p4), new_frame |-> new_frame]

\* Ppu::tick: the Ppu after the tick and the value returned
tick(p) ==
  LET p1 == [p EXCEPT !.cycle = @ + 1]
      wrap == p1.cycle > LastCycle
      p2 == IF wrap /\ is_sprite_0_hit(p1, p1.cycle)
            THEN [p1 EXCEPT !.status = InsertBit(@, SPRITE_0_HIT)] ELSE p1
      p3 == IF wrap
            THEN [p2 EXCEPT !.cycle = 0, !.scanline = @ + 1] ELSE p2
      p4 == IF wrap /\ p3.scanline = VBlankScanline
            THEN set_vblank(
                   [p3 EXCEPT !.render_scroll_x = p3.scroll_x,
                              !.render_scroll_y = p3.scroll_y,
                              !.render_nametable_addr = nametable_addr(p3.ctrl),
                              !.status = RemoveBit(@, SPRITE_0_HIT)])
            ELSE IF wrap /\ p3.scanline > LastScanline
                 THEN [p3 EXCEPT !.scanline = 0, !.frame = @ + 1]
                 ELSE p3
      new_frame == wrap /\ p3.scanline # VBlankScanline
                        /\ p3.scanline > LastScanline
      p5 == IF p4.scanline = LastScanline /\ p4.cycle = 1
            THEN clear_vblank(
                   [p4 EXCEPT !.status =
                      RemoveBit(RemoveBit(@, SPRITE_OVERFLOW), SPRITE_0_HIT)])
            ELSE p4
  IN [p |-> update_nmi_output(p5), new_frame |-> new_frame]

ppu_read_status_after_clear(p) ==
  [p |-> [clear_vblank(p) EXCEPT !.addr.latch = TRUE, !.scroll_latch = TRUE],
   result |-> clear_vblank(p).status]

\* Ppu::read_status: the Ppu after the read and the byte returned
ppu_read_status(p) ==
  [p |-> [clear_vblank(p) EXCEPT !.addr.latch = TRUE, !.scroll_latch = TRUE],
   result |-> p.status]

\* Ppu::write_to_ppu_mask
write_to_ppu_mask(p, value) == [p EXCEPT !.mask = value]

\* Ppu::write_to_ppu_ctrl
write_to_ppu_ctrl(p, value) == [p EXCEPT !.ctrl = value]

\* Ppu::write_to_ppu_scroll with PpuScrollRegister::update
write_to_ppu_scroll(p, value) ==
  [p EXCEPT !.scroll_x = IF p.scroll_latch THEN value ELSE @,
            !.scroll_y = IF p.scroll_latch THEN @ ELSE value,
            !.scroll_latch = ~p.scroll_latch]

\* Ppu::write_to_ppu_addr
write_to_ppu_addr(p, value) == [p EXCEPT !.addr = addr_update(@, value)]

\* Ppu::write_to_oam_addr
write_to_oam_addr(p, value) == [p EXCEPT !.oam_addr = value]

\* oam_data[index] = value; an absent index holds 0
OamPut(oam_data, index, value) == (index :> value) @@ oam_data

write_to_oam_data_in_place(p, value) ==
  [p EXCEPT !.oam_data = OamPut(@, p.oam_addr, value)]

\* Ppu::write_to_oam_data
write_to_oam_data(p, value) ==
  [p EXCEPT !.oam_data = OamPut(@, p.oam_addr, value),
            !.oam_addr = W8(@ + 1)]

\* Ppu::write_to_oam_dma: the loop over value[first .. last], in order,
\* split in halves; the test of the first half's oam_addr, a u8, has the
\* first half evaluated before the second starts
RECURSIVE write_to_oam_dma_range(_, _, _, _)
write_to_oam_dma_range(p, value, first, last) ==
  IF first = last THEN write_to_oam_data(p, value[first])
  ELSE LET middle == (first + last) \div 2
           half == write_to_oam_dma_range(p, value, first, middle)
       IN IF half.oam_addr \in Byte
          THEN write_to_oam_dma_range(half, value, middle + 1, last)
          ELSE half

\* Ppu::write_to_oam_dma
write_to_oam_dma(p, value) == write_to_oam_dma_range(p, value, 0, 255)

\* Ppu::increment_vram_addr
increment_vram_addr(p) ==
  [p EXCEPT !.addr = addr_increment(@, vram_add_increment(p.ctrl))]

PaletteIndex_unmirrored(address) == address - 16128

\* the index of a palette address in palette_table
PaletteIndex(address) ==
  IF address \in {16144, 16148, 16152, 16156}
  THEN address - 16 - 16128 ELSE address - 16128

(***************************************************************************)
(* Ppu::read_data: the Ppu after the read, the byte returned, and whether  *)
(* the read stopped the program instead (unimplemented!, or an index past  *)
(* the end of vram or palette_table).                                      *)
(***************************************************************************)
read_data(p) ==
  LET address == addr_get(p.addr)
      p1 == increment_vram_addr(p)
  IN IF address <= 8191
     THEN [p |-> [p1 EXCEPT !.internal_data_buffer =
                              cartridge_ppu_read(p.cartridge, address)],
           result |-> p.internal_data_buffer, fault |-> FALSE]
     ELSE IF address <= 12287
     THEN IF mirror_vram_address(p, address) < VramSize
          THEN [p |-> [p1 EXCEPT !.internal_data_buffer =
                         RamAt(p.vram, mirror_vram_address(p, address))],
                result |-> p.internal_data_buffer, fault |-> FALSE]
          ELSE [p |-> p1, result |-> 0, fault |-> TRUE]
     ELSE IF address <= 16127
     THEN [p |-> p1, result |-> 0, fault |-> TRUE]
     ELSE IF PaletteIndex(address) < 32
          THEN [p |-> p1, result |-> RamAt(p.palette_table, PaletteIndex(address)),
                fault |-> FALSE]
          ELSE [p |-> p1, result |-> 0, fault |-> TRUE]

\* Ppu::write_data: the Ppu after the write, and whether the write stopped
\* the program instead
write_data(p, value) ==
  LET address == addr_get(p.addr)
  IN IF address <= 8191
     THEN [p |-> increment_vram_addr(
                   [p EXCEPT !.cartridge = cartridge_ppu_write(@, address, value)]),
           fault |-> FALSE]
     ELSE IF address <= 12287
     THEN IF mirror_vram_address(p, address) < VramSize
          THEN [p |-> increment_vram_addr(
                        [p EXCEPT !.vram = RamPut(@, mirror_vram_address(p, address),
                                                  value)]),
                fault |-> FALSE]
          ELSE [p |-> p, fault |-> TRUE]
     ELSE IF address <= 16127
     THEN [p |-> p, fault |-> TRUE]
     ELSE IF PaletteIndex(address) < 32
          THEN [p |-> increment_vram_addr(
                        [p EXCEPT !.palette_table =
                           RamPut(@, PaletteIndex(address), value)]),
                fault |-> FALSE]
          ELSE [p |-> p, fault |-> TRUE]

ppu_poll_nmi_on_level(p) ==
  [p |-> [p EXCEPT !.nmi_previous = p.nmi_output],
   pending |-> p.nmi_output]

\* Ppu::poll_nmi: the Ppu after the poll and the value returned
ppu_poll_nmi(p) ==
  [p |-> [p EXCEPT !.nmi_previous = p.nmi_output],
   pending |-> ~p.nmi_previous /\ p.nmi_output]

(***************************************************************************)
(* APU frame counter (src/src/apu/frame_counter.rs).  f is the             *)
(* FrameCounter, sg the ClockSignals being built.                          *)
(***************************************************************************)
NoSignals == [clock_envelopes |-> FALSE, clock_length |-> FALSE, irq |-> FALSE]

NoWrite == [some |-> FALSE, value |-> 0]

\* FrameCounter::default
FrameCounterDefault ==
  [mode |-> "FourStep", cycle_counter |-> 0, irq_inhibit |-> FALSE,
   irq_flag |-> FALSE, write_delay_counter |-> 0, pending_write |-> NoWrite]

WriteDelay == 4

fc_write_inhibit_now(f, value) ==
  [f EXCEPT !.pending_write = [some |-> TRUE, value |-> value],
            !.write_delay_counter = WriteDelay,
            !.irq_inhibit = HasBit(value, 64),
            !.irq_flag = IF HasBit(value, 64) THEN FALSE ELSE @]

fc_write_keeping_delay(f, value) ==
  [f EXCEPT !.pending_write = [some |-> TRUE, value |-> value],
            !.write_delay_counter = IF f.pending_write.some
                                    THEN @ ELSE WriteDelay]

\* FrameCounter::write
fc_write(f, value) ==
  [f EXCEPT !.pending_write = [some |-> TRUE, value |-> value],
            !.write_delay_counter = WriteDelay]

Quarter(sg) == [sg EXCEPT !.clock_envelopes = TRUE]

QuarterHalf(sg) == [sg EXCEPT !.clock_envelopes = TRUE, !.clock_length = TRUE]

RaiseIrq(f) == IF ~f.irq_inhibit THEN [f EXCEPT !.irq_flag = TRUE] ELSE f

clock_four_step_late_irq(f, sg) ==
  CASE f.cycle_counter = 7457 -> [f |-> f, sg |-> Quarter(sg)]
    [] f.cycle_counter = 14913 -> [f |-> f, sg |-> QuarterHalf(sg)]
    [] f.cycle_counter = 22371 -> [f |-> f, sg |-> Quarter(sg)]
    [] f.cycle_counter = 29829 -> [f |-> RaiseIrq(f), sg |-> QuarterHalf(sg)]
    [] f.cycle_counter = 29830 -> [f |-> [f EXCEPT !.cycle_counter = 0], sg |-> sg]
    [] OTHER -> [f |-> f, sg |-> sg]

clock_four_step_short(f, sg) ==
  CASE f.cycle_counter = 7457 -> [f |-> f, sg |-> Quarter(sg)]
    [] f.cycle_counter = 14913 -> [f |-> f, sg |-> QuarterHalf(sg)]
    [] f.cycle_counter = 22371 -> [f |-> f, sg |-> Quarter(sg)]
    [] f.cycle_counter = 29828 -> [f |-> RaiseIrq(f), sg |-> sg]
    [] f.cycle_counter = 29829 ->
         [f |-> [RaiseIrq(f) EXCEPT !.cycle_counter = 0],
          sg |-> QuarterHalf(sg)]
    [] OTHER -> [f |-> f, sg |-> sg]

\* FrameCounter::clock_four_step
clock_four_step(f, sg) ==
  CASE f.cycle_counter = 7457 -> [f |-> f, sg |-> Quarter(sg)]
    [] f.cycle_counter = 14913 -> [f |-> f, sg |-> QuarterHalf(sg)]
    [] f.cycle_counter = 22371 -> [f |-> f, sg |-> Quarter(sg)]
    [] f.cycle_counter = 29828 -> [f |-> RaiseIrq(f), sg |-> sg]
    [] f.cycle_counter = 29829 -> [f |-> RaiseIrq(f), sg |-> QuarterHalf(sg)]
    [] f.cycle_counter = 29830 -> [f |-> [f EXCEPT !.cycle_counter = 0], sg |-> sg]
    [] OTHER -> [f |-> f, sg |-> sg]

clock_five_step_with_irq(f, sg) ==
  CASE f.cycle_counter = 7457 -> [f |-> f, sg |-> Quarter(sg)]
    [] f.cycle_counter = 14913 -> [f |-> f, sg |-> QuarterHalf(sg)]
    [] f.cycle_counter = 22371 -> [f |-> f, sg |-> Quarter(sg)]
    [] f.cycle_counter = 29829 -> [f |-> RaiseIrq(f), sg |-> Quarter(sg)]
    [] f.cycle_counter = 37281 -> [f |-> f, sg |-> QuarterHalf(sg)]
    [] f.cycle_counter = 37282 -> [f |-> [f EXCEPT !.cycle_counter = 0], sg |-> sg]
    [] OTHER -> [f |-> f, sg |-> sg]

\* FrameCounter::clock_five_step
clock_five_step(f, sg) ==
  CASE f.cycle_counter = 7457 -> [f |-> f, sg |-> Quarter(sg)]
    [] f.cycle_counter = 14913 -> [f |-> f, sg |-> QuarterHalf(sg)]
    [] f.cycle_counter = 22371 -> [f |-> f, sg |-> Quarter(sg)]
    [] f.cycle_counter = 29829 -> [f |-> f, sg |-> sg]
    [] f.cycle_counter = 37281 -> [f |-> f, sg |-> QuarterHalf(sg)]
    [] f.cycle_counter = 37282 -> [f |-> [f EXCEPT !.cycle_counter = 0], sg |-> sg]
    [] OTHER -> [f |-> f, sg |-> sg]

\* the pending $4017 byte takes effect
ApplyWrite(f, value) ==
  LET inhibit == HasBit(value, 64)
  IN [f EXCEPT !.irq_inhibit = inhibit,
               !.irq_flag = IF inhibit THEN FALSE ELSE @,
               !.cycle_counter = 0,
               !.mode = IF HasBit(value, 128) THEN "FiveStep" ELSE "FourStep",
               !.pending_write = NoWrite]

\* FrameCounter::clock with the signals of the applying clock given in
\* both modes
fc_clock_signalling_both_modes(f) ==
  LET f1 == IF f.write_delay_counter > 0
            THEN [f EXCEPT !.write_delay_counter = @ - 1] ELSE f
      applies == f.write_delay_counter > 0 /\ f1.write_delay_counter = 0
                 /\ f1.pending_write.some
      f2 == IF applies THEN ApplyWrite(f1, f1.pending_write.value) ELSE f1
      sg0 == IF applies THEN QuarterHalf(NoSignals) ELSE NoSignals
      f3 == [f2 EXCEPT !.cycle_counter = @ + 1]
      r == IF f3.mode = "FourStep"
           THEN clock_four_step(f3, sg0) ELSE clock_five_step(f3, sg0)
  IN [f |-> r.f,
      sg |-> [r.sg EXCEPT !.irq = r.f.irq_flag /\ ~r.f.irq_inhibit],
      applied |-> applies]

\* FrameCounter::clock: the FrameCounter after the clock, the signals
\* returned, and whether a pending write took effect on this clock
fc_clock(f) ==
  LET f1 == IF f.write_delay_counter > 0
            THEN [f EXCEPT !.write_delay_counter = @ - 1] ELSE f
      applies == f.write_delay_counter > 0 /\ f1.write_delay_counter = 0
                 /\ f1.pending_write.some
      f2 == IF applies THEN ApplyWrite(f1, f1.pending_write.value) ELSE f1
      sg0 == IF applies /\ f2.mode = "FiveStep"
             THEN QuarterHalf(NoSignals) ELSE NoSignals
      f3 == [f2 EXCEPT !.cycle_counter = @ + 1]
      r == IF f3.mode = "FourStep"
           THEN clock_four_step(f3, sg0) ELSE clock_five_step(f3, sg0)
  IN [f |-> r.f,
      sg |-> [r.sg EXCEPT !.irq = r.f.irq_flag /\ ~r.f.irq_inhibit],
      applied |-> applies]

(***************************************************************************)
(* APU channels (src/src/apu/*_channel.rs).  Of each channel the model     *)
(* carries the enable bit, the halt flag and the length counter, and of    *)
(* the DMC the sample bookkeeping, timer and interrupt flag.  The          *)
(* waveform units (timers of the tone channels, duty, envelope, sweep,     *)
(* linear counter, output level) are written and clocked by the code but   *)
(* never read back into the fields carried here.                           *)
(***************************************************************************)
LENGTH_TABLE ==
  << 10, 254, 20, 2, 40, 4, 80, 6, 160, 8, 60, 10, 14, 12, 26, 14,
     12, 16, 24, 18, 48, 20, 96, 22, 192, 24, 72, 26, 16, 28, 32, 30 >>

DMC_RATE_TABLE ==
  << 428, 380, 340, 320, 286, 254, 226, 214, 190, 160, 142, 128, 106, 84,
     72, 54 >>

\* the 5-bit index a length-load byte carries
LengthIndex(value) == (value \div 8) % 32

\* PulseChannel::new
PulseNew ==
  [enabled |-> FALSE, length_counter_halt |-> FALSE, length_counter |-> 0]

\* PulseChannel::set_enabled
pulse_set_enabled(c, enabled) ==
  [c EXCEPT !.enabled = enabled,
            !.length_counter = IF ~enabled THEN 0 ELSE @]

\* PulseChannel::write_control
pulse_write_control(c, value) ==
  [c EXCEPT !.length_counter_halt = HasBit(value, 32)]

\* PulseChannel::write_timer_high
pulse_write_timer_high(c, value) ==
  [c EXCEPT !.length_counter = LENGTH_TABLE[LengthIndex(value) + 1]]

pulse_clock_length_counter_ignoring_halt(c) ==
  IF c.length_counter > 0
  THEN [c EXCEPT !.length_counter = @ - 1] ELSE c

\* PulseChannel::clock_length_counter
pulse_clock_length_counter(c) ==
  IF ~c.length_counter_halt /\ c.length_counter > 0
  THEN [c EXCEPT !.length_counter = @ - 1] ELSE c

\* TriangleChannel::new
TriangleNew ==
  [enabled |-> FALSE, counter_halt |-> FALSE, length_counter |-> 0]

\* TriangleChannel::set_enabled
triangle_set_enabled(c, enabled) ==
  [c EXCEPT !.enabled = enabled,
            !.length_counter = IF ~enabled THEN 0 ELSE @]

\* TriangleChannel::write_control
triangle_write_control(c, value) ==
  [c EXCEPT !.counter_halt = HasBit(value, 128)]

\* TriangleChannel::write_timer_high
triangle_write_timer_high(c, value) ==
  IF c.enabled
  THEN [c EXCEPT !.length_counter = LENGTH_TABLE[LengthIndex(value) + 1]]
  ELSE c

\* TriangleChannel::clock_length_counter
triangle_clock_length_counter(c) ==
  IF ~c.counter_halt /\ c.length_counter > 0
  THEN [c EXCEPT !.length_counter = @ - 1] ELSE c

\* NoiseChannel::new
NoiseNew ==
  [enabled |-> FALSE, length_counter_halt |-> FALSE, length_counter |-> 0]

\* NoiseChannel::set_enabled
noise_set_enabled(c, enabled) ==
  [c EXCEPT !.enabled = enabled,
            !.length_counter = IF ~enabled THEN 0 ELSE @]

\* NoiseChannel::write_control
noise_write_control(c, value) ==
  [c EXCEPT !.length_counter_halt = HasBit(value, 32)]

\* NoiseChannel::write_length_load
noise_write_length_load(c, value) ==
  IF c.enabled
  THEN [c EXCEPT !.length_counter = LENGTH_TABLE[LengthIndex(value) + 1]]
  ELSE c

\* NoiseChannel::clock_length_counter
noise_clock_length_counter(c) ==
  IF ~c.length_counter_halt /\ c.length_counter > 0
  THEN [c EXCEPT !.length_counter = @ - 1] ELSE c

\* DmcChannel::new
DmcNew ==
  [irq_enabled |-> FALSE, loop_flag |-> FALSE, sample_length |-> 0,
   timer_period |-> DMC_RATE_TABLE[1], timer |-> DMC_RATE_TABLE[1],
   enabled |-> FALSE, bytes_remaining |-> 0, sample_buffer_empty |-> TRUE,
   bits_remaining |-> 0, silence_flag |-> FALSE, interrupt_flag |-> FALSE,
   needs_init |-> FALSE, sample_address |-> 0, current_address |-> 0]

dmc_set_enabled_keeping_bytes(c, enabled) ==
  IF enabled /\ (~c.enabled \/ c.bytes_remaining = 0)
  THEN [c EXCEPT !.enabled = enabled, !.bytes_remaining = c.sample_length,
                 !.current_address = c.sample_address,
                 !.needs_init = TRUE]
  ELSE [c EXCEPT !.enabled = enabled]

\* DmcChannel::set_enabled
dmc_set_enabled(c, enabled) ==
  IF enabled
  THEN IF ~c.enabled \/ c.bytes_remaining = 0
       THEN [c EXCEPT !.enabled = enabled,
                      !.current_address = c.sample_address,
                      !.bytes_remaining = c.sample_length,
                      !.needs_init = TRUE]
       ELSE [c EXCEPT !.enabled = enabled]
  ELSE [c EXCEPT !.enabled = enabled, !.bytes_remaining = 0]

\* DmcChannel::write_flags
dmc_write_flags(c, value) ==
  [c EXCEPT !.irq_enabled = HasBit(value, 128),
            !.loop_flag = HasBit(value, 64),
            !.timer_period = DMC_RATE_TABLE[(value % 16) + 1],
            !.interrupt_flag = IF ~HasBit(value, 128) THEN FALSE ELSE @]

\* DmcChannel::write_sample_address
dmc_write_sample_address(c, value) ==
  [c EXCEPT !.sample_address = 49152 + value * 64]

\* DmcChannel::write_sample_length
dmc_write_sample_length(c, value) ==
  [c EXCEPT !.sample_length = value * 16 + 1]

dmc_fill_sample_buffer_irq_on_loop(c) ==
  LET c1 == [c EXCEPT !.sample_buffer_empty = FALSE,
                      !.current_address =
                        IF @ = 65535 THEN 32768 ELSE @ + 1,
                      !.bytes_remaining = @ - 1]
  IN IF c1.bytes_remaining = 0
     THEN IF c1.loop_flag
          THEN [c1 EXCEPT !.current_address = c1.sample_address,
                          !.bytes_remaining = c1.sample_length,
                          !.interrupt_flag = c1.irq_enabled \/ @]
          ELSE IF c1.irq_enabled
               THEN [c1 EXCEPT !.interrupt_flag = TRUE] ELSE c1
     ELSE c1

\* DmcChannel::fill_sample_buffer
dmc_fill_sample_buffer(c) ==
  LET c1 == [c EXCEPT !.sample_buffer_empty = FALSE,
                      !.current_address =
                        IF @ = 65535 THEN 32768 ELSE @ + 1,
                      !.bytes_remaining = @ - 1]
  IN IF c1.bytes_remaining = 0
     THEN IF c1.loop_flag
          THEN [c1 EXCEPT !.current_address = c1.sample_address,
                          !.bytes_remaining = c1.sample_length]
          ELSE IF c1.irq_enabled
               THEN [c1 EXCEPT !.interrupt_flag = TRUE] ELSE c1
     ELSE c1

\* DmcChannel::clock_output_unit
dmc_clock_output_unit(c) ==
  LET c1 == IF c.bits_remaining = 0
            THEN IF c.sample_buffer_empty
                 THEN [c EXCEPT !.bits_remaining = 8, !.silence_flag = TRUE]
                 ELSE [c EXCEPT !.bits_remaining = 8, !.silence_flag = FALSE,
                                !.sample_buffer_empty = TRUE]
            ELSE c
  IN [c1 EXCEPT !.bits_remaining = @ - 1]

\* DmcChannel::clock_timer
dmc_clock_timer(c) ==
  LET c1 == IF c.needs_init /\ c.sample_buffer_empty /\ c.bytes_remaining > 0
            THEN [dmc_fill_sample_buffer(c) EXCEPT !.needs_init = FALSE]
            ELSE c
  IN IF c1.timer = 0
     THEN LET c2 == dmc_clock_output_unit([c1 EXCEPT !.timer = c1.timer_period])
          IN IF c2.bits_remaining = 0 /\ c2.sample_buffer_empty
                /\ c2.bytes_remaining > 0
             THEN dmc_fill_sample_buffer(c2) ELSE c2
     ELSE [c1 EXCEPT !.timer = @ - 1]

(***************************************************************************)
(* APU (src/src/apu/mod.rs).                                               *)
(***************************************************************************)
\* Apu::new
ApuNew ==
  [pulse_1 |-> PulseNew, pulse_2 |-> PulseNew, triangle |-> TriangleNew,
   noise |-> NoiseNew, dmc |-> DmcNew,
   frame_counter |-> FrameCounterDefault, cycle |-> 0,
   frame_irq |-> FALSE, dmc_irq |-> FALSE]

StatusByte(a) ==
  (IF a.pulse_1.length_counter > 0 THEN 1 ELSE 0)
  + (IF a.pulse_2.length_counter > 0 THEN 2 ELSE 0)
  + (IF a.triangle.length_counter > 0 THEN 4 ELSE 0)
  + (IF a.noise.length_counter > 0 THEN 8 ELSE 0)
  + (IF a.dmc.bytes_remaining > 0 THEN 16 ELSE 0)
  + (IF a.frame_irq THEN 64 ELSE 0)
  + (IF a.dmc_irq THEN 128 ELSE 0)

\* Apu::read_status: the Apu after the read and the byte returned
read_status(a) ==
  [a |-> [a EXCEPT !.frame_irq = FALSE, !.frame_counter.irq_flag = FALSE],
   status |-> StatusByte(a)]

\* Apu::write_status
write_status(a, value) ==
  [a EXCEPT !.pulse_1 = pulse_set_enabled(@, HasBit(value, 1)),
            !.pulse_2 = pulse_set_enabled(@, HasBit(value, 2)),
            !.triangle = triangle_set_enabled(@, HasBit(value, 4)),
            !.noise = noise_set_enabled(@, HasBit(value, 8)),
            !.dmc = [dmc_set_enabled(@, HasBit(value, 16))
                       EXCEPT !.interrupt_flag = FALSE]]

\* the length counters clocked by Apu::clock on a half-frame signal
ClockLengthCounters(a) ==
  [a EXCEPT !.pulse_1 = pulse_clock_length_counter(@),
            !.pulse_2 = pulse_clock_length_counter(@),
            !.triangle = triangle_clock_length_counter(@),
            !.noise = noise_clock_length_counter(@)]

\* Apu::clock: the Apu after the clock, the frame counter's signals
apu_clock(a) ==
  LET r == fc_clock(a.frame_counter)
      a1 == IF r.sg.clock_length THEN ClockLengthCounters(a) ELSE a
      dmc1 == dmc_clock_timer(a1.dmc)
  IN [a |-> [a1 EXCEPT !.frame_counter = r.f,
                       !.frame_irq = r.sg.irq,
                       !.dmc = dmc1,
                       !.dmc_irq = dmc1.interrupt_flag,
                       !.cycle = @ + 1],
      sg |-> r.sg, applied |-> r.applied]

\* Apu::irq_pending
irq_pending(a) == a.frame_irq \/ a.dmc_irq

\* Apu::cpu_write at $4017
write_4017(a, value) == [a EXCEPT !.frame_counter = fc_write(@, value)]

\* Apu::cpu_write
apu_cpu_write(a, address, value) ==
  CASE address = 16384 -> [a EXCEPT !.pulse_1 = pulse_write_control(@, value)]
    [] address = 16387 -> [a EXCEPT !.pulse_1 = pulse_write_timer_high(@, value)]
    [] address = 16388 -> [a EXCEPT !.pulse_2 = pulse_write_control(@, value)]
    [] address = 16391 -> [a EXCEPT !.pulse_2 = pulse_write_timer_high(@, value)]
    [] address = 16392 -> [a EXCEPT !.triangle = triangle_write_control(@, value)]
    [] address = 16395 -> [a EXCEPT !.triangle = triangle_write_timer_high(@, value)]
    [] address = 16396 -> [a EXCEPT !.noise = noise_write_control(@, value)]
    [] address = 16399 -> [a EXCEPT !.noise = noise_write_length_load(@, value)]
    [] address = 16400 -> [a EXCEPT !.dmc = dmc_write_flags(@, value)]
    [] address = 16402 -> [a EXCEPT !.dmc = dmc_write_sample_address(@, value)]
    [] address = 16403 -> [a EXCEPT !.dmc = dmc_write_sample_length(@, value)]
    [] address = 16405 -> write_status(a, value)
    [] address = 16407 -> write_4017(a, value)
    [] OTHER -> a

(***************************************************************************)
(* State.  obs holds what the last operation returned: its name, the       *)
(* ClockSignals of the last FrameCounter::clock, the byte of the last      *)
(* $4015 read, the number of $4017 writes so far and the APU cycle at      *)
(* which the sequencer was last restarted.                                 *)
(***************************************************************************)
ObsNew ==
  [act |-> "new", sg |-> NoSignals, status |-> 0, applied |-> FALSE,
   writes |-> 0, restart_at |-> 0, resets |-> 0, write_at |-> 0,
   address |-> 0, value |-> 0, pre |-> 0,
   latched |-> -1, reads |-> 0, bit |-> 0,
   ticks |-> 0, new_frame |-> FALSE, nmi |-> FALSE, first |-> 0,
   fault |-> FALSE]

\* Emulator::new: nothing run yet
EmuNew ==
  [phase |-> "new", left |-> 0, cpu_cycles |-> 0, total |-> 0,
   frame_complete |-> FALSE]

Constructed ==
  /\ cpu = CpuNew
  /\ bus = BusNew
  /\ rom \in {RomOf(img) : img \in VectorImages}
  /\ ppu = PpuNew
  /\ apu = ApuNew
  /\ emu = EmuNew
  /\ obs = ObsNew

Did(name) ==
  obs' = [ObsNew EXCEPT !.act = name, !.writes = obs.writes,
                        !.restart_at = obs.restart_at, !.resets = obs.resets]

(***************************************************************************)
(* The CPU and the bus, clocked cycle by cycle: Cpu::reset, Cpu::clock,    *)
(* Bus::trigger_nmi and Bus::trigger_irq called in any order.              *)
(***************************************************************************)
\* a fetch on this clock decodes one of the modelled opcodes
FetchesModelled(m, fb) ==
  (m.cpu.cycles_remaining = 0 /\ handle_interrupts(m).cpu.cycles_remaining = 0)
    => NextOpcode(m, fb) \in ModelledOpcodes

CpuReset ==
  /\ obs.resets < MaxResets
  /\ LET m == reset(Machine) IN cpu' = m.cpu /\ bus' = m.bus
  /\ obs' = [ObsNew EXCEPT !.act = "reset", !.resets = obs.resets + 1]
  /\ UNCHANGED <<rom, ppu, apu, emu>>

\* the opcode bytes ROM may supply to the fetch of this clock
FetchInputs(m) ==
  IF m.cpu.cycles_remaining = 0 /\ handle_interrupts(m).cpu.cycles_remaining = 0
  THEN ModelledOpcodes ELSE {0}

\* the operand and data bytes ROM and devices may supply to the instruction
\* that commits on this clock
OperandInputs(m) ==
  LET ci == m.cpu.current_instruction
  IN IF m.cpu.cycles_remaining = 1 /\ ci.some
     THEN CASE ci.op.mode = "Implied" -> {<<0, 0, 0>>}
            [] ci.op.mode \in {"Immediate", "Relative", "ZeroPageX"} ->
                 {<<b, 0, 0>> : b \in DataBytes}
            [] ci.op.mode = "Absolute" ->
                 {<<b, c, 0>> : b \in DataBytes, c \in DataBytes}
            [] OTHER ->
                 {<<b, c, d>> : b \in DataBytes, c \in DataBytes, d \in DataBytes}
     ELSE {<<0, 0, 0>>}

CpuClock ==
  /\ obs.act # "new"
  /\ cpu.cycles < MaxCpuCycles
  /\ \E fb \in FetchInputs(Machine), inp \in OperandInputs(Machine) :
       /\ FetchesModelled(Machine, fb)
       /\ LET m == clock(Machine, fb, inp)
          IN cpu' = m.cpu /\ bus' = m.bus
  /\ Did("clock")
  /\ UNCHANGED <<rom, ppu, apu, emu>>

TriggerNmi ==
  /\ obs.act # "new"
  /\ ~bus.nmi_pending
  /\ bus' = trigger_nmi(bus)
  /\ UNCHANGED <<cpu, rom, ppu, apu, emu, obs>>

TriggerIrq ==
  /\ obs.act # "new"
  /\ ~bus.irq_pending
  /\ bus' = trigger_irq(bus)
  /\ UNCHANGED <<cpu, rom, ppu, apu, emu, obs>>

InitCpu == Constructed

NextCpu == CpuReset \/ CpuClock \/ TriggerNmi \/ TriggerIrq

SpecCpu == InitCpu /\ [][NextCpu]_vars

(***************************************************************************)
(* The emulator loop (src/src/emulator.rs): Emulator::reset, then          *)
(* Emulator::run_frame.  emu.phase is the position in these two methods,   *)
(* emu.left the iterations left of the loop it is in, emu.cpu_cycles the   *)
(* cycles of the CPU step of this iteration, emu.total the sum of the      *)
(* cycle counts the CPU steps have returned.                               *)
(***************************************************************************)
ResetPpuTicks == 21

ResetApuClocks == 7

PpuTicksFor_two(cpu_cycles) == cpu_cycles * 2

\* the bound of the PPU loop of run_frame
PpuTicksFor(cpu_cycles) == cpu_cycles * 3

\* Emulator::reset up to its first loop
EmuReset ==
  /\ emu.phase = "new"
  /\ LET m == reset(Machine) IN cpu' = m.cpu /\ bus' = m.bus
  /\ emu' = [emu EXCEPT !.phase = "reset_ppu", !.left = ResetPpuTicks]
  /\ Did("reset")
  /\ UNCHANGED <<rom, ppu, apu>>

\* one iteration of the PPU loop of Emulator::reset
EmuResetPpuTick ==
  /\ emu.phase = "reset_ppu"
  /\ ppu' = tick(ppu).p
  /\ emu' = IF emu.left = 1
            THEN [emu EXCEPT !.phase = "reset_apu", !.left = ResetApuClocks]
            ELSE [emu EXCEPT !.left = @ - 1]
  /\ Did("tick")
  /\ UNCHANGED <<cpu, bus, rom, apu>>

\* one iteration of the APU loop of Emulator::reset
EmuResetApuClock ==
  /\ emu.phase = "reset_apu"
  /\ apu' = apu_clock(apu).a
  /\ emu' = IF emu.left = 1
            THEN [emu EXCEPT !.phase = "ready", !.left = 0]
            ELSE [emu EXCEPT !.left = @ - 1]
  /\ Did("apu_clock")
  /\ UNCHANGED <<cpu, bus, rom, ppu>>

\* Emulator::run_frame is entered
EmuRunFrame ==
  /\ emu.phase = "ready"
  /\ emu' = [emu EXCEPT !.phase = "step", !.cpu_cycles = 0,
                        !.frame_complete = FALSE]
  /\ Did("run_frame")
  /\ UNCHANGED <<cpu, bus, rom, ppu, apu>>

\* one clock of cpu.step(): the step clocks the CPU until the instruction
\* or interrupt sequence is complete and returns the number of clocks
EmuStepClock ==
  /\ emu.phase = "step"
  /\ cpu.cycles < MaxEmuCycles
  /\ \E fb \in FetchInputs(Machine), inp \in OperandInputs(Machine) :
       /\ FetchesModelled(Machine, fb)
       /\ LET m == clock(Machine, fb, inp)
              n == emu.cpu_cycles + 1
          IN /\ cpu' = m.cpu
             /\ bus' = m.bus
             /\ emu' = IF m.cpu.cycles_remaining = 0
                       THEN [emu EXCEPT !.phase = "ppu", !.cpu_cycles = n,
                                        !.total = @ + n,
                                        !.left = PpuTicksFor(n)]
                       ELSE [emu EXCEPT !.cpu_cycles = n]
  /\ Did("clock")
  /\ UNCHANGED <<rom, ppu, apu>>

\* one iteration of the PPU loop of run_frame
EmuPpuTick ==
  /\ emu.phase = "ppu"
  /\ LET r == tick(ppu)
         q == ppu_poll_nmi(r.p)
     IN /\ ppu' = q.p
        /\ bus' = IF q.pending THEN trigger_nmi(bus) ELSE bus
        /\ emu' = [emu EXCEPT
                     !.frame_complete = @ \/ r.new_frame,
                     !.phase = IF emu.left = 1 THEN "apu" ELSE "ppu",
                     !.left = IF emu.left = 1 THEN emu.cpu_cycles ELSE @ - 1]
  /\ Did("tick")
  /\ UNCHANGED <<cpu, rom, apu>>

EmuApuClockOnEdge ==
  /\ emu.phase = "apu"
  /\ LET r == apu_clock(apu)
     IN /\ apu' = r.a
        /\ bus' = IF irq_pending(r.a) /\ ~irq_pending(apu)
                  THEN trigger_irq(bus) ELSE bus
        /\ emu' = IF emu.left = 1
                  THEN [emu EXCEPT
                          !.phase = IF emu.frame_complete
                                    THEN "ready" ELSE "step",
                          !.left = 0, !.cpu_cycles = 0]
                  ELSE [emu EXCEPT !.left = @ - 1]
  /\ Did("apu_clock")
  /\ UNCHANGED <<cpu, rom, ppu>>

\* one iteration of the APU loop of run_frame, and the loop's exit test
EmuApuClock ==
  /\ emu.phase = "apu"
  /\ LET r == apu_clock(apu)
     IN /\ apu' = r.a
        /\ bus' = IF irq_pending(r.a) THEN trigger_irq(bus) ELSE bus
        /\ emu' = IF emu.left = 1
                  THEN [emu EXCEPT
                          !.phase = IF emu.frame_complete
                                    THEN "ready" ELSE "step",
                          !.left = 0, !.cpu_cycles = 0]
                  ELSE [emu EXCEPT !.left = @ - 1]
  /\ Did("apu_clock")
  /\ UNCHANGED <<cpu, rom, ppu>>

InitEmu == Constructed /\ rom = RomOf(Image1)

NextEmu ==
  \/ EmuReset
  \/ EmuResetPpuTick
  \/ EmuResetApuClock
  \/ EmuRunFrame
  \/ EmuStepClock
  \/ EmuPpuTick
  \/ EmuApuClock

SpecEmu == InitEmu /\ [][NextEmu]_vars

(***************************************************************************)
(* The APU driven through its registers: Apu::clock, reads of $4015 and    *)
(* writes of $4017 in any order.                                           *)
(***************************************************************************)
\* the bytes written to $4017: mode and irq_inhibit in every combination
FrameBytes == { 0, 64, 128, 192 }

ApuClock ==
  /\ apu.cycle < MaxApuCycles
  /\ LET r == apu_clock(apu)
     IN /\ apu' = r.a
        /\ obs' = [obs EXCEPT !.act = "apu_clock", !.sg = r.sg, !.status = 0,
                              !.applied = r.applied,
                              !.restart_at = IF r.applied THEN apu.cycle ELSE @]
  /\ UNCHANGED <<cpu, bus, rom, ppu, emu>>

ReadStatus ==
  /\ LET r == read_status(apu)
     IN /\ apu' = r.a
        /\ obs' = [obs EXCEPT !.act = "read_status", !.sg = NoSignals,
                              !.status = r.status, !.applied = FALSE]
  /\ UNCHANGED <<cpu, bus, rom, ppu, emu>>

Write4017 ==
  /\ obs.writes < MaxWrites
  /\ apu.cycle < WriteWindow
  /\ \E value \in FrameBytes : apu' = write_4017(apu, value)
  /\ obs' = [obs EXCEPT !.act = "write_4017", !.sg = NoSignals, !.status = 0,
                        !.applied = FALSE, !.writes = @ + 1]
  /\ UNCHANGED <<cpu, bus, rom, ppu, emu>>

InitFrame == Constructed /\ rom = RomOf(Image1)

NextFrame == ApuClock \/ ReadStatus \/ Write4017

SpecFrame == InitFrame /\ [][NextFrame]_vars


(***************************************************************************)
(* The $4017 write delay: Apu::clock up to the end of the first 4-step     *)
(* period, with reads of $4015 and writes of $4017 at the start and        *)
(* around the frame IRQ of cycles 29828 and 29829.                         *)
(***************************************************************************)
\* the numbers of elapsed APU clocks at which the registers are accessed
AccessCycles == (0..1) \cup (29824..29830)

WindowClock ==
  /\ apu.cycle < MaxWindowCycles
  /\ LET r == apu_clock(apu)
     IN /\ apu' = r.a
        /\ obs' = [obs EXCEPT !.act = "apu_clock", !.sg = r.sg, !.status = 0,
                              !.applied = r.applied,
                              !.restart_at = IF r.applied THEN apu.cycle ELSE @]
  /\ UNCHANGED <<cpu, bus, rom, ppu, emu>>

WindowRead ==
  /\ apu.cycle \in AccessCycles
  /\ LET r == read_status(apu)
     IN /\ apu' = r.a
        /\ obs' = [obs EXCEPT !.act = "read_status", !.sg = NoSignals,
                              !.status = r.status, !.applied = FALSE]
  /\ UNCHANGED <<cpu, bus, rom, ppu, emu>>

WindowWrite ==
  /\ apu.cycle \in AccessCycles
  /\ obs.writes < MaxWindowWrites
  /\ \E value \in FrameBytes : apu' = write_4017(apu, value)
  /\ obs' = [obs EXCEPT !.act = "write_4017", !.sg = NoSignals, !.status = 0,
                        !.applied = FALSE, !.writes = @ + 1,
                        !.write_at = apu.cycle]
  /\ UNCHANGED <<cpu, bus, rom, ppu, emu>>

InitWindow == Constructed /\ rom = RomOf(Image1)

NextWindow == WindowClock \/ WindowRead \/ WindowWrite

SpecWindow == InitWindow /\ [][NextWindow]_vars

(***************************************************************************)
(* The APU's registers driven by the CPU (Apu::cpu_write, Apu::clock):     *)
(* writes to the channel registers, to $4015 and to $4017, interleaved     *)
(* with clocks.  A write of $80 to $4017 yields a half-frame signal on     *)
(* the clock that applies it, so a handful of clocks reaches several       *)
(* half-frame signals.                                                     *)
(***************************************************************************)
LengthLoadValues == {8, 24}
ChanWrites ==
  ({16384, 16388, 16396} \X {0, 32})
    \cup ({16392} \X {0, 128})
    \cup ({16387, 16391, 16395, 16399} \X LengthLoadValues)
    \cup ({16400} \X {0, 128})
    \cup ({16403} \X {1})
    \cup ({16405} \X {0, 15, 31})
    \cup ({16407} \X {128})

ChanClock ==
  /\ apu.cycle < MaxChanClocks
  /\ LET r == apu_clock(apu)
     IN /\ apu' = r.a
        /\ obs' = [obs EXCEPT !.act = "apu_clock", !.sg = r.sg,
                              !.applied = r.applied,
                              !.pre = StatusByte(apu)]
  /\ UNCHANGED <<cpu, bus, rom, ppu, emu>>

ChanWrite ==
  /\ obs.writes < MaxChanWrites
  /\ \E w \in ChanWrites :
       /\ apu' = apu_cpu_write(apu, w[1], w[2])
       /\ obs' = [obs EXCEPT !.act = "cpu_write", !.address = w[1],
                             !.value = w[2], !.writes = @ + 1,
                             !.pre = StatusByte(apu)]
  /\ UNCHANGED <<cpu, bus, rom, ppu, emu>>

InitChan == Constructed /\ rom = RomOf(Image1)

NextChan == ChanClock \/ ChanWrite

SpecChan == InitChan /\ [][NextChan]_vars

(***************************************************************************)
(* Controller port $4016 (Bus::read and Bus::write at JOYPAD_1) and the    *)
(* host's key events, which Emulator::run lets in between two frames,      *)
(* that is between any two CPU cycles of the program.  obs.latched is the  *)
(* button byte at the $00 write that ended a strobe (-1 when no strobe     *)
(* sequence has completed), obs.reads the reads since then.                *)
(***************************************************************************)
HostButtons == {BUTTON_A, BUTTON_START, BUTTON_RIGHT}

PadWrite ==
  /\ \E value \in {0, 1} :
       /\ bus' = [bus EXCEPT !.joypad_1 = joypad_write(@, value)]
       /\ obs' = [obs EXCEPT
                    !.act = "pad_write", !.value = value,
                    !.latched = IF value = 1 THEN -1
                                ELSE IF bus.joypad_1.strobe
                                     THEN bus.joypad_1.button_states ELSE @,
                    !.reads = IF value = 1 \/ bus.joypad_1.strobe
                              THEN 0 ELSE @]
  /\ UNCHANGED <<cpu, rom, ppu, apu, emu>>

PadRead ==
  /\ obs.reads < MaxPadReads
  /\ LET r == joypad_read(bus.joypad_1)
     IN /\ bus' = [bus EXCEPT !.joypad_1 = r.j]
        /\ obs' = [obs EXCEPT !.act = "pad_read", !.bit = r.response,
                              !.reads = IF obs.latched >= 0 THEN @ + 1 ELSE @]
  /\ UNCHANGED <<cpu, rom, ppu, apu, emu>>

PadSetButton ==
  /\ \E button \in HostButtons, pressed \in BOOLEAN :
       /\ bus' = [bus EXCEPT
                    !.joypad_1 = set_button_state(@, button, pressed)]
       /\ obs' = [obs EXCEPT !.act = "set_button_state"]
  /\ UNCHANGED <<cpu, rom, ppu, apu, emu>>

InitPad == Constructed /\ rom = RomOf(Image1)

NextPad == PadWrite \/ PadRead \/ PadSetButton

SpecPad == InitPad /\ [][NextPad]_vars

(***************************************************************************)
(* The PPU ticked by the loop of run_frame (Ppu::tick, then Ppu::poll_nmi  *)
(* and Bus::trigger_nmi), with CPU accesses to $2000, $2005 and $2002 in   *)
(* between.  obs.ticks counts the calls of tick; the accesses are explored *)
(* at the start, around the tick that begins VBlank and around the tick    *)
(* that ends it.  obs.reads counts the $2002 reads since the last tick and *)
(* obs.first is what the first of them returned.                           *)
(***************************************************************************)
TicksPerFrame == (LastCycle + 1) * (LastScanline + 1)
VBlankTick == VBlankScanline * (LastCycle + 1)
PreRenderTick == LastScanline * (LastCycle + 1) + 1

PpuWriteTicks == {0, VBlankTick - 1}
PpuReadTicks ==
  (VBlankTick - 1 .. VBlankTick + 1) \cup (PreRenderTick - 1 .. PreRenderTick)
PpuRegWrites == {<<8192, 129>>, <<8197, 21>>}

PpuTick ==
  /\ obs.ticks < MaxPpuTicks
  /\ LET r == tick(ppu)
         q == ppu_poll_nmi(r.p)
     IN /\ ppu' = q.p
        /\ bus' = IF q.pending THEN trigger_nmi(bus) ELSE bus
        /\ obs' = [obs EXCEPT !.act = "tick", !.ticks = @ + 1,
                              !.new_frame = r.new_frame, !.nmi = q.pending,
                              !.pre = ppu.status, !.reads = 0, !.first = 0]
  /\ UNCHANGED <<cpu, rom, apu, emu>>

PpuRegWrite ==
  /\ obs.ticks \in PpuWriteTicks
  /\ \E w \in PpuRegWrites :
       /\ ppu' = IF w[1] = 8192 THEN write_to_ppu_ctrl(ppu, w[2])
                 ELSE write_to_ppu_scroll(ppu, w[2])
       /\ obs' = [obs EXCEPT !.act = "cpu_write", !.address = w[1],
                             !.value = w[2]]
  /\ UNCHANGED <<cpu, bus, rom, apu, emu>>

PpuStatusRead ==
  /\ obs.ticks \in PpuReadTicks
  /\ obs.reads < MaxStatusReads
  /\ LET r == ppu_read_status(ppu)
     IN /\ ppu' = r.p
        /\ obs' = [obs EXCEPT !.act = "read_2002", !.status = r.result,
                              !.pre = ppu.status, !.reads = @ + 1,
                              !.first = IF obs.reads = 0 THEN r.result ELSE @]
  /\ UNCHANGED <<cpu, bus, rom, apu, emu>>

InitPpu == Constructed /\ rom = RomOf(Image1)

NextPpu == PpuTick \/ PpuRegWrite \/ PpuStatusRead

SpecPpu == InitPpu /\ [][NextPpu]_vars

(***************************************************************************)
(* The PPU's address and data ports (Ppu::cpu_write at $2000, $2006 and    *)
(* $2007, Ppu::cpu_read at $2002 and $2007) over the cartridges            *)
(* Cartridge::load can build.  A panic of the code ends the run:           *)
(* obs.fault.  obs.latched is the address the last pair of $2006 writes    *)
(* set (-1 when there is none, or when $2007 was written since),           *)
(* obs.reads the $2007 reads since then, obs.pre the read buffer before    *)
(* the read and obs.first the byte the memory held at that address.        *)
(***************************************************************************)
ChrImage1 == (0 :> 17 @@ 1 :> 34 @@ 32 :> 51 @@ 8160 :> 68 @@ 8191 :> 85)

Cartridges ==
  { [mirroring |-> mi, chr_banks |-> 1, chr |-> ChrImage1] : mi \in Mirrorings }
    \cup { [mirroring |-> "Vertical", chr_banks |-> 0, chr |-> <<>>] }

AddrBytes == {0, 31, 32, 40, 47, 255}

\* the byte the PPU's memory holds at an address below $3000
ByteAt(p, address) ==
  IF address <= 8191 THEN cartridge_ppu_read(p.cartridge, address)
  ELSE IF mirror_vram_address(p, address) < VramSize
       THEN RamAt(p.vram, mirror_vram_address(p, address)) ELSE 0

DataStep(act) ==
  [obs EXCEPT !.act = act, !.writes = @ + 1]

DataAddrWrite ==
  /\ ~obs.fault /\ obs.writes < MaxDataOps
  /\ \E value \in AddrBytes :
       /\ ppu' = write_to_ppu_addr(ppu, value)
       /\ obs' = [DataStep("write_2006") EXCEPT
                    !.value = value,
                    !.latched = IF ppu.addr.latch THEN -1
                                ELSE addr_get(ppu'.addr),
                    !.reads = 0,
                    !.first = IF ppu.addr.latch THEN 0
                              ELSE ByteAt(ppu', addr_get(ppu'.addr) % 12288)]
  /\ UNCHANGED <<cpu, bus, rom, apu, emu>>

DataCtrlWrite ==
  /\ ~obs.fault /\ obs.writes < MaxDataOps
  /\ \E value \in {0, 4} :
       /\ ppu' = write_to_ppu_ctrl(ppu, value)
       /\ obs' = [DataStep("write_2000") EXCEPT !.value = value]
  /\ UNCHANGED <<cpu, bus, rom, apu, emu>>

DataStatusRead ==
  /\ ~obs.fault /\ obs.writes < MaxDataOps
  /\ ppu' = ppu_read_status(ppu).p
  /\ obs' = [DataStep("read_2002") EXCEPT !.latched = -1]
  /\ UNCHANGED <<cpu, bus, rom, apu, emu>>

DataRead ==
  /\ ~obs.fault /\ obs.writes < MaxDataOps
  /\ LET r == read_data(ppu)
     IN /\ ppu' = r.p
        /\ obs' = [DataStep("read_2007") EXCEPT
                     !.status = r.result, !.fault = r.fault,
                     !.pre = ppu.internal_data_buffer, !.reads = @ + 1]
  /\ UNCHANGED <<cpu, bus, rom, apu, emu>>

DataWrite ==
  /\ ~obs.fault /\ obs.writes < MaxDataOps
  /\ \E value \in {171} :
       LET r == write_data(ppu, value)
       IN /\ ppu' = r.p
          /\ obs' = [DataStep("write_2007") EXCEPT
                       !.value = value, !.fault = r.fault, !.latched = -1]
  /\ UNCHANGED <<cpu, bus, rom, apu, emu>>

InitData ==
  /\ cpu = CpuNew /\ bus = BusNew /\ rom = RomOf(Image1)
  /\ \E c \in Cartridges : ppu = [PpuNew EXCEPT !.cartridge = c]
  /\ apu = ApuNew /\ emu = EmuNew /\ obs = ObsNew

NextData ==
  DataAddrWrite \/ DataCtrlWrite \/ DataStatusRead \/ DataRead \/ DataWrite

SpecData == InitData /\ [][NextData]_vars

(***************************************************************************)
(* The palette through the PPU's ports: $2006 writes that reach the        *)
(* palette addresses $3F00..$3F1F, $2007 writes and reads.  obs.address    *)
(* is the VRAM address a $2007 access used.                                *)
(***************************************************************************)
PalAddrBytes == {63, 0, 4, 16, 20, 28}
PalBytes == {17, 34}

PalAddrWrite ==
  /\ ~obs.fault /\ obs.writes < MaxPalOps
  /\ \E value \in PalAddrBytes :
       /\ ppu' = write_to_ppu_addr(ppu, value)
       /\ obs' = [DataStep("write_2006") EXCEPT !.value = value]
  /\ UNCHANGED <<cpu, bus, rom, apu, emu>>

PalWrite ==
  /\ ~obs.fault /\ obs.writes < MaxPalOps
  /\ \E value \in PalBytes :
       LET r == write_data(ppu, value)
       IN /\ ppu' = r.p
          /\ obs' = [DataStep("write_2007") EXCEPT
                       !.value = value, !.fault = r.fault,
                       !.address = addr_get(ppu.addr)]
  /\ UNCHANGED <<cpu, bus, rom, apu, emu>>

PalRead ==
  /\ ~obs.fault /\ obs.writes < MaxPalOps
  /\ LET r == read_data(ppu)
     IN /\ ppu' = r.p
        /\ obs' = [DataStep("read_2007") EXCEPT
                     !.status = r.result, !.fault = r.fault,
                     !.address = addr_get(ppu.addr)]
  /\ UNCHANGED <<cpu, bus, rom, apu, emu>>

InitPal == Constructed /\ rom = RomOf(Image1)

NextPal == PalAddrWrite \/ PalWrite \/ PalRead

SpecPal == InitPal /\ [][NextPal]_vars

(***************************************************************************)
(* OAM-DMA (Bus::write at $4014, Ppu::write_to_oam_dma) next to writes of  *)
(* work RAM and of OAMADDR ($2003).  The pages transferred are work RAM,   *)
(* a mirror of it and a page no device answers; obs.pre is OAMADDR before  *)
(* the access.                                                             *)
(***************************************************************************)
DmaPages == {0, 2, 10, 96}
OamRamAddresses == {0, 512, 513}
OamBytes == {17, 34}

\* Bus::write at PPU_OAM_DMA: the Ppu after the transfer of page value
oam_dma(m, p, value) ==
  write_to_oam_dma(p, [i \in 0..255 |-> BusRead(m, value * 256 + i, 0)])

OamRamWrite ==
  /\ obs.writes < MaxOamOps
  /\ \E address \in OamRamAddresses, value \in OamBytes :
       /\ bus' = BusWrite(Machine, address, value).bus
       /\ obs' = [DataStep("write_ram") EXCEPT
                    !.address = address, !.value = value]
  /\ UNCHANGED <<cpu, rom, ppu, apu, emu>>

OamAddrWrite ==
  /\ obs.writes < MaxOamOps
  /\ \E value \in {0, 1, 255} :
       /\ ppu' = write_to_oam_addr(ppu, value)
       /\ obs' = [DataStep("write_2003") EXCEPT
                    !.value = value, !.pre = ppu.oam_addr]
  /\ UNCHANGED <<cpu, bus, rom, apu, emu>>

OamDma ==
  /\ obs.writes < MaxOamOps
  /\ \E value \in DmaPages :
       /\ ppu' = oam_dma(Machine, ppu, value)
       /\ obs' = [DataStep("write_4014") EXCEPT
                    !.value = value, !.pre = ppu.oam_addr]
  /\ UNCHANGED <<cpu, bus, rom, apu, emu>>

InitOam == Constructed /\ rom = RomOf(Image1)

NextOam == OamRamWrite \/ OamAddrWrite \/ OamDma

SpecOam == InitOam /\ [][NextOam]_vars

(***************************************************************************)
(* The emulator loop around a store to $4014: Emulator::reset and          *)
(* Emulator::run_frame as above, with the program drawn from LDA #page,    *)
(* PHA, NOP and STA absolute to $4014 or to work RAM.  The store reaches   *)
(* Bus::write, which does the whole transfer inside the call.  obs.pre is  *)
(* the CPU cycle count at the clock of the store and obs.first the cycle   *)
(* count of the store instruction.                                         *)
(***************************************************************************)
PPU_OAM_DMA == 16404

DmaOpcodes == {72, 141, 169, 234}

DmaFetchInputs(m) ==
  IF m.cpu.cycles_remaining = 0 /\ handle_interrupts(m).cpu.cycles_remaining = 0
  THEN DmaOpcodes ELSE {0}

DmaOperandInputs(m) ==
  LET ci == m.cpu.current_instruction
  IN IF m.cpu.cycles_remaining = 1 /\ ci.some
     THEN CASE ci.op.instruction = "STA" -> {<<20, 64, 0>>, <<0, 2, 0>>}
            [] ci.op.instruction = "LDA" -> {<<1, 0, 0>>, <<2, 0, 0>>}
            [] OTHER -> {<<0, 0, 0>>}
     ELSE {<<0, 0, 0>>}

\* the address a store committing on this clock writes, or -1
StoreTarget(m, inp) ==
  LET ci == m.cpu.current_instruction
  IN IF m.cpu.cycles_remaining = 1 /\ ci.some /\ ci.op.instruction = "STA"
     THEN get_operand_address(m, ci.op.mode, ci.operand_pc, inp).addr
     ELSE -1

\* one clock of cpu.step() as in EmuStepClock, with the PPU side of
\* Bus::write
DmaStepClock ==
  /\ emu.phase = "step"
  /\ cpu.cycles < MaxDmaCycles
  /\ \E fb \in DmaFetchInputs(Machine), inp \in DmaOperandInputs(Machine) :
       LET m == clock(Machine, fb, inp)
           n == emu.cpu_cycles + 1
           dma == StoreTarget(Machine, inp) = PPU_OAM_DMA
       IN /\ cpu' = m.cpu
          /\ bus' = m.bus
          /\ ppu' = IF dma THEN oam_dma(Machine, ppu, cpu.a) ELSE ppu
          /\ emu' = IF m.cpu.cycles_remaining = 0
                    THEN [emu EXCEPT !.phase = "ppu", !.cpu_cycles = n,
                                     !.total = @ + n,
                                     !.left = PpuTicksFor(n)]
                    ELSE [emu EXCEPT !.cpu_cycles = n]
          /\ obs' = IF dma
                    THEN [ObsNew EXCEPT
                            !.act = "write_4014", !.value = cpu.a,
                            !.pre = cpu.cycles,
                            !.first = cpu.current_instruction.op.cycles]
                    ELSE [ObsNew EXCEPT !.act = "clock"]
  /\ UNCHANGED <<rom, apu>>

InitDma == Constructed /\ rom = RomOf(Image1)

NextDma ==
  \/ EmuReset
  \/ EmuResetPpuTick
  \/ EmuResetApuClock
  \/ EmuRunFrame
  \/ DmaStepClock
  \/ EmuPpuTick
  \/ EmuApuClock

SpecDma == InitDma /\ [][NextDma]_vars

(***************************************************************************)
(* Cartridge::load (src/src/cartridge/mod.rs).  The file is kept in rom as *)
(* its length and its first 16 bytes: load reads nothing else of it but    *)
(* the slices it copies.  The result is an error or the cartridge.         *)
(***************************************************************************)
NES_TAG == <<78, 69, 83, 26>>
PRG_ROM_BANK_SIZE == 16384
CHR_ROM_BANK_SIZE == 8192
HeaderSize == 16
TrainerSize == 512

LoadError(text) == [ok |-> FALSE, error |-> text, cartridge |-> CartridgeNew]

\* Cartridge::create_mapper: whether a mapper is made
create_mapper(mapper_number) == mapper_number = 0

\* Cartridge::load after the file is read
load(data) ==
  IF data.len < HeaderSize
  THEN LoadError("ROM data is too small for expected iNES header")
  ELSE
    LET tag == SubSeq(data.head, 1, 4)
        flags_6 == data.head[7]
        flags_7 == data.head[8]
        mapper_number == (flags_7 \div 16) * 16 + (flags_6 \div 16)
        mirroring == IF HasBit(flags_6, 8) THEN "FourScreen"
                     ELSE IF HasBit(flags_6, 1) THEN "Vertical"
                     ELSE "Horizontal"
        prg_rom_size == data.head[5] * PRG_ROM_BANK_SIZE
        chr_rom_size == data.head[6] * CHR_ROM_BANK_SIZE
        offset == IF HasBit(flags_6, 4)
                  THEN HeaderSize + TrainerSize ELSE HeaderSize
    IN IF tag # NES_TAG THEN LoadError("Invalid iNES header")
       ELSE IF data.len < offset + prg_rom_size
       THEN LoadError("ROM data is too small for expected PRG-ROM")
       ELSE IF chr_rom_size > 0 /\ data.len < offset + prg_rom_size + chr_rom_size
       THEN LoadError("ROM data is too small for expected CHR-ROM")
       ELSE IF ~create_mapper(mapper_number)
       THEN LoadError("Unsupported mapper")
       ELSE [ok |-> TRUE, error |-> "",
             cartridge |-> [mirroring |-> mirroring,
                            chr_banks |-> data.head[6], chr |-> <<>>]]

\* the files: every header of the byte sets below at the lengths around
\* each boundary load tests
LoadTags == {NES_TAG, <<78, 69, 83, 0>>}
LoadFlags6 == {0, 1, 4, 8, 16, 32, 36}
LoadFlags7 == {0, 16}

LoadLengths ==
  {0, 15, 16} \cup
    {n \in {HeaderSize + t + p * PRG_ROM_BANK_SIZE + c * CHR_ROM_BANK_SIZE + e :
              t \in {0, TrainerSize}, p \in 0..MaxPrgBanks,
              c \in 0..MaxChrBanks, e \in {-1, 0}} : n >= 0}

HeaderOf(tag, prg, chr, f6, f7) ==
  tag \o <<prg, chr, f6, f7, 0, 0, 0, 0, 0, 0, 0, 0>>

RomFiles ==
  {[len |-> n,
    head |-> SubSeq(HeaderOf(tag, prg, chr, f6, f7), 1,
                    IF n < HeaderSize THEN n ELSE HeaderSize)] :
     n \in LoadLengths, tag \in LoadTags, prg \in 0..MaxPrgBanks,
     chr \in 0..MaxChrBanks, f6 \in LoadFlags6, f7 \in LoadFlags7}

\* Cartridge::load is called on the file; the PPU is given the cartridge
Load ==
  /\ obs.act = "new"
  /\ LET r == load(rom)
     IN /\ ppu' = IF r.ok THEN [ppu EXCEPT !.cartridge = r.cartridge] ELSE ppu
        /\ obs' = [ObsNew EXCEPT !.act = "load", !.fault = ~r.ok]
  /\ UNCHANGED <<cpu, bus, rom, apu, emu>>

InitLoad ==
  /\ cpu = CpuNew /\ bus = BusNew /\ ppu = PpuNew /\ apu = ApuNew
  /\ emu = EmuNew /\ obs = ObsNew
  /\ rom \in RomFiles

NextLoad == Load

SpecLoad == InitLoad /\ [][NextLoad]_vars

(***************************************************************************)
(* The status bits over one frame: Ppu::tick from construction to the      *)
(* second scanline of the next frame, with sprite rendering switched on    *)
(* ($2001) and sprite 0 placed on scanline 250 ($2004) before the first    *)
(* tick, so that the sprite-0 bit is raised during VBlank, and with reads  *)
(* of $2002 during VBlank and on the tick before the pre-render clear.     *)
(* obs.pre is the status byte before the tick or read.                     *)
(***************************************************************************)
ClearMaskBytes == {SHOW_SPRITES}
ClearOamBytes == {250}
ClearReadTicks == {252 * (LastCycle + 1), PreRenderTick - 1}

ClearTick ==
  /\ obs.ticks < MaxClearTicks
  /\ LET r == tick(ppu)
         q == ppu_poll_nmi(r.p)
     IN /\ ppu' = q.p
        /\ bus' = IF q.pending THEN trigger_nmi(bus) ELSE bus
        /\ obs' = [obs EXCEPT !.act = "tick", !.ticks = @ + 1,
                              !.new_frame = r.new_frame, !.nmi = q.pending,
                              !.pre = ppu.status, !.reads = 0]
  /\ UNCHANGED <<cpu, rom, apu, emu>>

ClearMaskWrite ==
  /\ obs.ticks = 0 /\ ppu.mask = 0
  /\ \E value \in ClearMaskBytes :
       /\ ppu' = write_to_ppu_mask(ppu, value)
       /\ obs' = [obs EXCEPT !.act = "cpu_write", !.address = 8193,
                             !.value = value]
  /\ UNCHANGED <<cpu, bus, rom, apu, emu>>

ClearOamWrite ==
  /\ obs.ticks = 0 /\ ppu.oam_addr = 0
  /\ \E value \in ClearOamBytes :
       /\ ppu' = write_to_oam_data(ppu, value)
       /\ obs' = [obs EXCEPT !.act = "cpu_write", !.address = 8196,
                             !.value = value]
  /\ UNCHANGED <<cpu, bus, rom, apu, emu>>

ClearStatusRead ==
  /\ obs.ticks \in ClearReadTicks
  /\ obs.reads < MaxStatusReads
  /\ LET r == ppu_read_status(ppu)
     IN /\ ppu' = r.p
        /\ obs' = [obs EXCEPT !.act = "read_2002", !.status = r.result,
                              !.pre = ppu.status, !.reads = @ + 1]
  /\ UNCHANGED <<cpu, bus, rom, apu, emu>>

InitClear == Constructed /\ rom = RomOf(Image1)

NextClear == ClearTick \/ ClearMaskWrite \/ ClearOamWrite \/ ClearStatusRead

SpecClear == InitClear /\ [][NextClear]_vars

(***************************************************************************)
(* The write latches of $2005 and $2006 (Ppu::write_to_ppu_scroll,         *)
(* Ppu::write_to_ppu_addr, Ppu::read_status).  obs.latched counts the      *)
(* writes to either register since construction or the last read of        *)
(* $2002, obs.pre is that count before the write just made, and obs.first  *)
(* is 1 when the write took the first-write branch of its register's       *)
(* update (X scroll, high address byte) and 0 when it took the second.     *)
(***************************************************************************)
LatchScrollBytes == {1, 2}
LatchAddrBytes == {33, 64}

LatchScrollWrite ==
  /\ obs.writes < MaxLatchOps
  /\ \E value \in LatchScrollBytes :
       /\ ppu' = write_to_ppu_scroll(ppu, value)
       /\ obs' = [DataStep("write_2005") EXCEPT
                    !.value = value, !.pre = obs.latched,
                    !.latched = @ + 1,
                    !.first = IF ppu.scroll_latch THEN 1 ELSE 0]
  /\ UNCHANGED <<cpu, bus, rom, apu, emu>>

LatchAddrWrite ==
  /\ obs.writes < MaxLatchOps
  /\ \E value \in LatchAddrBytes :
       /\ ppu' = write_to_ppu_addr(ppu, value)
       /\ obs' = [DataStep("write_2006") EXCEPT
                    !.value = value, !.pre = obs.latched,
                    !.latched = @ + 1,
                    !.first = IF ppu.addr.latch THEN 1 ELSE 0]
  /\ UNCHANGED <<cpu, bus, rom, apu, emu>>

LatchStatusRead ==
  /\ obs.writes < MaxLatchOps
  /\ ppu' = ppu_read_status(ppu).p
  /\ obs' = [DataStep("read_2002") EXCEPT !.latched = 0]
  /\ UNCHANGED <<cpu, bus, rom, apu, emu>>

InitLatch ==
  /\ cpu = CpuNew /\ bus = BusNew /\ rom = RomOf(Image1) /\ ppu = PpuNew
  /\ apu = ApuNew /\ emu = EmuNew /\ obs = [ObsNew EXCEPT !.latched = 0]

NextLatch == LatchScrollWrite \/ LatchAddrWrite \/ LatchStatusRead

SpecLatch == InitLatch /\ [][NextLatch]_vars

(***************************************************************************)
(* Ppu::mirror_vram_address over the nametable addresses $2000..$2FFF,     *)
(* for the cartridges Cartridge::load can build (Horizontal, Vertical,     *)
(* FourScreen; load never yields a single-screen mirroring).               *)
(* obs.address is the address looked up and obs.latched the index          *)
(* returned.                                                               *)
(***************************************************************************)
NametableAddresses == 8192..12287

MirrorLookup ==
  /\ obs.act = "new"
  /\ \E address \in NametableAddresses :
       obs' = [ObsNew EXCEPT !.act = "mirror_vram_address",
                             !.address = address,
                             !.latched = mirror_vram_address(ppu, address)]
  /\ UNCHANGED <<cpu, bus, rom, ppu, apu, emu>>

InitMirror == InitData

NextMirror == MirrorLookup

SpecMirror == InitMirror /\ [][NextMirror]_vars

(***************************************************************************)
(* Writes to $2000 during VBlank.  The PPU is ticked as by run_frame       *)
(* (Ppu::tick, Ppu::poll_nmi, Bus::trigger_nmi); a CPU store to $2000 and  *)
(* a read of $2002 fall between two ticks, at the tick counts of           *)
(* NmiAccessTicks, which are instruction boundaries of run_frame (21 ticks *)
(* of Emulator::reset and three per CPU cycle).  After a write that raises *)
(* bit 7 while the VBlank bit is set obs.first is 1, obs.reads counts the  *)
(* ticks since and obs.nmi tells whether one of them latched an NMI on the *)
(* bus.                                                                    *)
(***************************************************************************)
NmiAccessTicks == {VBlankTick + 1, PreRenderTick - 16, PreRenderTick - 1}
NmiCtrlBytes == {0, GENERATE_NMI}
\* the PPU ticks run_frame makes after a store absolute (4 cycles)
StoreTicks == 12

NmiTick ==
  /\ obs.ticks < MaxNmiTicks
  /\ LET r == tick(ppu)
         q == ppu_poll_nmi(r.p)
     IN /\ ppu' = q.p
        /\ bus' = IF q.pending THEN trigger_nmi(bus) ELSE bus
        /\ obs' = [obs EXCEPT !.act = "tick", !.ticks = @ + 1,
                              !.reads = IF obs.first = 1 THEN @ + 1 ELSE @,
                              !.nmi = IF obs.first = 1 THEN @ \/ q.pending
                                      ELSE FALSE]
  /\ UNCHANGED <<cpu, rom, apu, emu>>

NmiCtrlWrite ==
  /\ obs.ticks \in NmiAccessTicks
  /\ obs.act = "tick"
  /\ obs.writes < MaxNmiWrites
  /\ \E value \in NmiCtrlBytes :
       /\ ppu' = write_to_ppu_ctrl(ppu, value)
       /\ obs' = [obs EXCEPT
                    !.act = "write_2000", !.value = value,
                    !.writes = @ + 1, !.pre = ppu.status,
                    !.first = IF ~HasBit(ppu.ctrl, GENERATE_NMI)
                                 /\ HasBit(value, GENERATE_NMI)
                                 /\ HasBit(ppu.status, VBLANK_STARTED)
                              THEN 1 ELSE 0,
                    !.reads = 0, !.nmi = FALSE]
  /\ UNCHANGED <<cpu, bus, rom, apu, emu>>

NmiStatusRead ==
  /\ obs.ticks \in NmiAccessTicks
  /\ obs.act = "tick"
  /\ LET r == ppu_read_status(ppu)
     IN /\ ppu' = r.p
        /\ obs' = [obs EXCEPT !.act = "read_2002", !.status = r.result,
                              !.first = 0, !.reads = 0, !.nmi = FALSE]
  /\ UNCHANGED <<cpu, bus, rom, apu, emu>>

InitNmi == Constructed /\ rom = RomOf(Image1)

NextNmi == NmiTick \/ NmiCtrlWrite \/ NmiStatusRead

SpecNmi == InitNmi /\ [][NextNmi]_vars

(***************************************************************************)
(* The interrupt latches of the bus called in any order: Bus::trigger_nmi, *)
(* Bus::trigger_irq, Bus::poll_nmi, Bus::poll_irq.  obs.nmi is the value   *)
(* the poll returned, obs.reads and obs.ticks count the trigger_nmi and    *)
(* trigger_irq calls since the last poll of that latch, and obs.pre is     *)
(* that count as the poll found it.                                        *)
(***************************************************************************)
LineTriggerNmi ==
  /\ obs.writes < MaxLineOps
  /\ bus' = trigger_nmi(bus)
  /\ obs' = [DataStep("trigger_nmi") EXCEPT !.reads = @ + 1]
  /\ UNCHANGED <<cpu, rom, ppu, apu, emu>>

LineTriggerIrq ==
  /\ obs.writes < MaxLineOps
  /\ bus' = trigger_irq(bus)
  /\ obs' = [DataStep("trigger_irq") EXCEPT !.ticks = @ + 1]
  /\ UNCHANGED <<cpu, rom, ppu, apu, emu>>

LinePollNmi ==
  /\ obs.writes < MaxLineOps
  /\ bus' = poll_nmi(Machine).bus
  /\ obs' = [DataStep("poll_nmi") EXCEPT
               !.nmi = bus.nmi_pending, !.pre = obs.reads, !.reads = 0]
  /\ UNCHANGED <<cpu, rom, ppu, apu, emu>>

LinePollIrq ==
  /\ obs.writes < MaxLineOps
  /\ bus' = poll_irq(Machine).bus
  /\ obs' = [DataStep("poll_irq") EXCEPT
               !.nmi = bus.irq_pending, !.pre = obs.ticks, !.ticks = 0]
  /\ UNCHANGED <<cpu, rom, ppu, apu, emu>>

InitLine == Constructed /\ rom = RomOf(Image1)

NextLine == LineTriggerNmi \/ LineTriggerIrq \/ LinePollNmi \/ LinePollIrq

SpecLine == InitLine /\ [][NextLine]_vars

(***************************************************************************)
(* Cpu::get_operand_address for the zero-page indexed modes, over index    *)
(* registers and operand bytes at and around the wrap.  obs.act is the     *)
(* mode, obs.value the operand byte, obs.address the address returned and  *)
(* obs.bit is 1 when a page cross was reported.                            *)
(***************************************************************************)
IndexBytes == {0, 1, 128, 255}
ZeroPageOperands == {0, 1, 127, 255}
ZeroPageModes == {"ZeroPageX", "ZeroPageY"}

ZeroPageLookup ==
  /\ obs.act = "new"
  /\ \E mode \in ZeroPageModes, b \in ZeroPageOperands :
       LET r == get_operand_address(Machine, mode, cpu.pc, <<b, 0, 0>>)
       IN obs' = [ObsNew EXCEPT !.act = mode, !.value = b,
                                !.address = r.addr,
                                !.bit = IF r.crossed THEN 1 ELSE 0]
  /\ UNCHANGED <<cpu, bus, rom, ppu, apu, emu>>

InitZeroPage ==
  /\ \E x \in IndexBytes, y \in IndexBytes :
       cpu = [CpuNew EXCEPT !.pc = PRG_ROM, !.x = x, !.y = y]
  /\ bus = BusNew /\ rom = RomOf(Image1) /\ ppu = PpuNew
  /\ apu = ApuNew /\ emu = EmuNew /\ obs = ObsNew

NextZeroPage == ZeroPageLookup

SpecZeroPage == InitZeroPage /\ [][NextZeroPage]_vars

(***************************************************************************)
(* Instruction timing: Cpu::reset, then Cpu::clock over loads with and     *)
(* without a page cross, a store, and branches taken and not taken.        *)
(* obs.latched is the opcode of the instruction last fetched, obs.pre the  *)
(* value of cpu.cycles at its fetch, obs.bit is 1 when its effective       *)
(* address crossed a page, obs.first is 0 for a branch not taken, 1 for a  *)
(* branch taken within the page and 2 for a branch taken to another page.  *)
(***************************************************************************)
CycleOpcodes == {157, 166, 169, 182, 189, 190, 208, 234, 240}

CycleOperandBytes == {0, 16, 128, 255}

\* the instruction committing on this clock, if any
Committing(m) ==
  m.cpu.cycles_remaining = 1 /\ m.cpu.current_instruction.some

\* whether the effective address of the committing instruction crosses a page
CrossesPage(m, inp) ==
  LET ci == m.cpu.current_instruction
  IN IF ci.op.mode \in {"AbsoluteX", "AbsoluteY"}
     THEN get_operand_address(m, ci.op.mode, ci.operand_pc, inp).crossed
     ELSE FALSE

\* the outcome of the committing branch: 0, 1 or 2 as in obs.first
BranchOutcome(m, inp) ==
  LET ci == m.cpu.current_instruction
      zero == HasBit(m.cpu.status, ZERO)
      taken == (ci.op.instruction = "BEQ" /\ zero)
                 \/ (ci.op.instruction = "BNE" /\ ~zero)
      next == W16(ci.operand_pc + 1)
      target == W16(next + AsI8(BusRead(m, ci.operand_pc, inp[1])) + 65536)
  IN IF ~taken THEN 0 ELSE IF Page(next) = Page(target) THEN 1 ELSE 2

CycleClock ==
  /\ obs.act # "new"
  /\ cpu.cycles < MaxCycleClocks
  /\ \E fb \in IF cpu.cycles_remaining = 0 THEN CycleOpcodes ELSE {0},
        b \in IF Committing(Machine) THEN CycleOperandBytes ELSE {0},
        c \in IF Committing(Machine) THEN CycleOperandBytes ELSE {0} :
       /\ cpu.cycles_remaining = 0 => NextOpcode(Machine, fb) \in CycleOpcodes
       /\ LET m == clock(Machine, fb, <<b, c, 0>>)
          IN /\ cpu' = m.cpu /\ bus' = m.bus
             /\ obs' =
                  IF cpu.cycles_remaining = 0
                  THEN [ObsNew EXCEPT !.act = "clock", !.resets = obs.resets,
                                      !.latched = NextOpcode(Machine, fb),
                                      !.pre = cpu.cycles]
                  ELSE IF Committing(Machine)
                  THEN [obs EXCEPT
                          !.act = "clock",
                          !.bit = IF CrossesPage(Machine, <<b, c, 0>>)
                                  THEN 1 ELSE 0,
                          !.first = BranchOutcome(Machine, <<b, c, 0>>)]
                  ELSE [obs EXCEPT !.act = "clock"]
  /\ UNCHANGED <<rom, ppu, apu, emu>>

InitCycles == Constructed

NextCycles == CpuReset \/ CycleClock

SpecCycles == InitCycles /\ [][NextCycles]_vars

(***************************************************************************)
(* The decoder against the opcode table: Cpu::reset, then the Cpu::clock   *)
(* that fetches and decodes one official opcode byte.  obs.value is the    *)
(* byte fetched; cpu.current_instruction holds what the decoder returned.  *)
(***************************************************************************)
OpcodeBytes == 0..255

\* the opcode bytes the decoder knows
OfficialOpcodes ==
  {b \in OpcodeBytes : decode_opcode(b).instruction # "XXX"}

DecodeClock ==
  /\ obs.act = "reset"
  /\ cpu.cycles_remaining = 0
  /\ \E fb \in OfficialOpcodes :
       LET m == clock(Machine, fb, <<0, 0, 0>>)
       IN /\ cpu' = m.cpu /\ bus' = m.bus
          /\ obs' = [ObsNew EXCEPT !.act = "fetch", !.resets = obs.resets,
                                   !.value = NextOpcode(Machine, fb)]
  /\ UNCHANGED <<rom, ppu, apu, emu>>

InitDecode == Constructed

NextDecode == CpuReset \/ DecodeClock

SpecDecode == InitDecode /\ [][NextDecode]_vars

(***************************************************************************)
(* The DMC's sample fetches: Apu::cpu_write at $4010, $4012, $4013 and     *)
(* $4015 in the first cycles, and Apu::clock through the first fetch (on   *)
(* the start of playback) and the second one (on the eighth clock of the   *)
(* output unit).  After a clock, obs.reads is 1 when it fetched a sample   *)
(* byte, obs.pre the bytes remaining before it, obs.bit and obs.status     *)
(* the loop and irq-enable flags before it; after every operation          *)
(* obs.first is 1 when the interrupt flag was set before it.               *)
(***************************************************************************)
DmcWrites ==
  ({16400} \X {15, 79, 143, 207})
    \cup ({16402} \X {255})
    \cup ({16403} \X {0})
    \cup ({16405} \X {0, 16})

\* DmcChannel::clock_timer calls fill_sample_buffer on this clock
Fetches(c) ==
  \/ c.needs_init /\ c.sample_buffer_empty /\ c.bytes_remaining > 0
  \/ /\ c.timer = 0
     /\ c.bits_remaining = 1
     /\ c.sample_buffer_empty
     /\ c.bytes_remaining > 0

Flag(b) == IF b THEN 1 ELSE 0

DmcClock ==
  /\ apu.cycle < MaxDmcClocks
  /\ apu' = apu_clock(apu).a
  /\ obs' = [obs EXCEPT !.act = "apu_clock",
                        !.reads = Flag(Fetches(apu.dmc)),
                        !.pre = apu.dmc.bytes_remaining,
                        !.bit = Flag(apu.dmc.loop_flag),
                        !.status = Flag(apu.dmc.irq_enabled),
                        !.first = Flag(apu.dmc.interrupt_flag)]
  /\ UNCHANGED <<cpu, bus, rom, ppu, emu>>

DmcWrite ==
  /\ obs.writes < MaxDmcWrites
  /\ apu.cycle <= DmcWriteWindow
  /\ \E w \in DmcWrites :
       /\ apu' = apu_cpu_write(apu, w[1], w[2])
       /\ obs' = [obs EXCEPT !.act = "cpu_write", !.address = w[1],
                             !.value = w[2], !.writes = @ + 1,
                             !.reads = 0,
                             !.first = Flag(apu.dmc.interrupt_flag)]
  /\ UNCHANGED <<cpu, bus, rom, ppu, emu>>

InitDmc == Constructed /\ rom = RomOf(Image1)

NextDmc == DmcClock \/ DmcWrite

SpecDmc == InitDmc /\ [][NextDmc]_vars

(***************************************************************************)
(* The frame IRQ in the emulator loop: Emulator::reset, then               *)
(* Emulator::run_frame over a program of NOPs until the frame counter      *)
(* raises its interrupt flag (APU clock 29828), and of NOP, CLI and SEI    *)
(* from then on.  Nothing reads $4015, so the flag stays set.  After a     *)
(* CPU clock, obs.first is 1 when the clock was at an instruction          *)
(* boundary with the APU's IRQ flag set, I clear and no NMI latched.       *)
(***************************************************************************)
FrameIrqClock == 29828

IrqOpcodes == IF apu.cycle < FrameIrqClock THEN {234} ELSE {88, 120, 234}

IrqStepClock ==
  /\ emu.phase = "step"
  /\ cpu.cycles < MaxIrqCycles
  /\ \E fb \in IF cpu.cycles_remaining = 0 THEN IrqOpcodes ELSE {0} :
       LET m == clock(Machine, fb, <<0, 0, 0>>)
           n == emu.cpu_cycles + 1
       IN /\ cpu' = m.cpu
          /\ bus' = m.bus
          /\ emu' = IF m.cpu.cycles_remaining = 0
                    THEN [emu EXCEPT !.phase = "ppu", !.cpu_cycles = n,
                                     !.total = @ + n,
                                     !.left = PpuTicksFor(n)]
                    ELSE [emu EXCEPT !.cpu_cycles = n]
  /\ obs' = [ObsNew EXCEPT
               !.act = "clock", !.resets = obs.resets,
               !.first = IF cpu.cycles_remaining = 0 /\ irq_pending(apu)
                            /\ ~HasBit(cpu.status, INTERRUPT_DISABLE)
                            /\ ~bus.nmi_pending
                         THEN 1 ELSE 0]
  /\ UNCHANGED <<rom, ppu, apu>>

InitIrq == Constructed /\ rom = RomOf(Image1)

NextIrq ==
  \/ EmuReset
  \/ EmuResetPpuTick
  \/ EmuResetApuClock
  \/ EmuRunFrame
  \/ IrqStepClock
  \/ EmuPpuTick
  \/ EmuApuClock

SpecIrq == InitIrq /\ [][NextIrq]_vars

(***************************************************************************)
(* $4017 written again while a write is pending: Apu::cpu_write at $4017   *)
(* and Apu::clock in any order.  obs.value is the byte last written and    *)
(* obs.pre the byte written before it, obs.write_at the number of APU      *)
(* clocks elapsed at the last write, obs.writes the number of writes,      *)
(* obs.ticks the number of writes made while an earlier one was pending,   *)
(* obs.reads the number of clocks on which a pending write took effect.    *)
(***************************************************************************)
RewriteClock ==
  /\ apu.cycle < MaxRewriteClocks
  /\ LET r == apu_clock(apu)
     IN /\ apu' = r.a
        /\ obs' = [obs EXCEPT !.act = "apu_clock", !.sg = r.sg,
                              !.applied = r.applied,
                              !.reads = IF r.applied THEN @ + 1 ELSE @]
  /\ UNCHANGED <<cpu, bus, rom, ppu, emu>>

RewriteWrite ==
  /\ obs.writes < MaxRewrites
  /\ \E value \in FrameBytes :
       /\ apu' = apu_cpu_write(apu, 16407, value)
       /\ obs' = [obs EXCEPT
                    !.act = "write_4017", !.sg = NoSignals,
                    !.applied = FALSE, !.writes = @ + 1,
                    !.pre = obs.value, !.value = value,
                    !.write_at = apu.cycle,
                    !.ticks = IF apu.frame_counter.pending_write.some
                              THEN @ + 1 ELSE @]
  /\ UNCHANGED <<cpu, bus, rom, ppu, emu>>

InitRewrite == Constructed /\ rom = RomOf(Image1)

NextRewrite == RewriteClock \/ RewriteWrite

SpecRewrite == InitRewrite /\ [][NextRewrite]_vars

(***************************************************************************)
(* NMIs per VBlank with CTRL left alone: one write of $2000 before the     *)
(* first tick, then the PPU loop of run_frame (Ppu::tick, Ppu::poll_nmi,   *)
(* Bus::trigger_nmi) over two VBlank starts, with reads of $2002 around    *)
(* the start and the end of each VBlank.  obs.reads is the number of       *)
(* ticks since the last VBlank start on which poll_nmi returned true, the  *)
(* tick of the start included; obs.writes is the number of $2002 reads.    *)
(***************************************************************************)
VblReadTicks ==
  (VBlankTick - 1 .. VBlankTick + 2) \cup (PreRenderTick - 1 .. PreRenderTick)

\* the tick sets the VBlank status bit
StartsVBlank(p, q) ==
  ~HasBit(p.status, VBLANK_STARTED) /\ HasBit(q.status, VBLANK_STARTED)

VblTick ==
  /\ obs.act # "new"
  /\ obs.ticks < MaxVblTicks
  /\ LET r == tick(ppu)
         q == ppu_poll_nmi(r.p)
         n == IF q.pending THEN 1 ELSE 0
     IN /\ ppu' = q.p
        /\ bus' = IF q.pending THEN trigger_nmi(bus) ELSE bus
        /\ obs' = [obs EXCEPT !.act = "tick", !.ticks = @ + 1,
                              !.nmi = q.pending,
                              !.first = IF StartsVBlank(ppu, r.p)
                                        THEN @ + 1 ELSE @,
                              !.reads = IF StartsVBlank(ppu, r.p)
                                        THEN n ELSE @ + n]
  /\ UNCHANGED <<cpu, rom, apu, emu>>

VblCtrlWrite ==
  /\ obs.act = "new"
  /\ \E value \in NmiCtrlBytes :
       /\ ppu' = write_to_ppu_ctrl(ppu, value)
       /\ obs' = [obs EXCEPT !.act = "write_2000", !.value = value]
  /\ UNCHANGED <<cpu, bus, rom, apu, emu>>

VblStatusRead ==
  /\ obs.act = "tick"
  /\ obs.ticks % TicksPerFrame \in VblReadTicks
  /\ obs.writes < MaxVblReads
  /\ LET r == ppu_read_status(ppu)
     IN /\ ppu' = r.p
        /\ obs' = [obs EXCEPT !.act = "read_2002", !.status = r.result,
                              !.writes = @ + 1]
  /\ UNCHANGED <<cpu, bus, rom, apu, emu>>

InitVbl == Constructed /\ rom = RomOf(Image1)

NextVbl == VblTick \/ VblCtrlWrite \/ VblStatusRead

SpecVbl == InitVbl /\ [][NextVbl]_vars

(***************************************************************************)
(* Vocabulary of the properties.                                           *)
(***************************************************************************)
NmiWord == Word(rom[NMI_VECTOR], rom[NMI_VECTOR + 1])

ResetWord == Word(rom[RESET_VECTOR], rom[RESET_VECTOR + 1])

IrqWord == Word(rom[IRQ_VECTOR], rom[IRQ_VECTOR + 1])

\* the step is a call of Cpu::clock
ClockStep == cpu'.cycles = cpu.cycles + 1

\* no instruction or interrupt sequence is in flight
AtBoundary == cpu.cycles_remaining = 0

\* the step has started an interrupt sequence
SequenceStarted ==
  cpu'.cycles_remaining = 6 /\ ~cpu'.current_instruction.some

\* the instruction named commits on this step
Commits(names) ==
  /\ cpu.current_instruction.some
  /\ cpu.cycles_remaining = 1
  /\ cpu.current_instruction.op.instruction \in names

\* the byte at STACK + sp after the step
StackAfter(sp) == RamAt(bus'.ram, STACK + sp)

\* the step pushed PCH, PCL and P of the state before it, P with B as
\* given and U set, set I and loaded PC from the vector
PushedAndVectored(pushed_pc, b, vector_word) ==
  /\ StackAfter(cpu.sp) = HiByte(pushed_pc)
  /\ StackAfter(W8(cpu.sp + 255)) = LoByte(pushed_pc)
  /\ StackAfter(W8(cpu.sp + 254)) =
       InsertBit(SetBit(cpu.status, BREAK_COMMAND, b), UNUSED)
  /\ cpu'.sp = W8(cpu.sp + 253)
  /\ cpu'.status = InsertBit(cpu.status, INTERRUPT_DISABLE)
  /\ cpu'.pc = vector_word

PpuTicks ==
  ppu.frame * ((LastCycle + 1) * (LastScanline + 1))
  + ppu.scanline * (LastCycle + 1) + ppu.cycle

(***************************************************************************)
(* C1.  After Emulator::reset and any number of iterations of the loop of  *)
(* run_frame the PPU has been ticked 21 + 3*N times and the APU clocked    *)
(* 7 + N times, N the sum of the cycle counts the CPU steps returned; in   *)
(* an iteration the PPU ticks come after the CPU step and before the APU   *)
(* clocks.                                                                 *)
(***************************************************************************)
C1_TickRatio ==
  /\ emu.phase \in {"ready", "step"} =>
       /\ PpuTicks = 21 + 3 * emu.total
       /\ apu.cycle = 7 + emu.total
       /\ cpu.cycles = emu.total + emu.cpu_cycles
  /\ emu.phase = "ppu" =>
       /\ cpu.cycles_remaining = 0
       /\ cpu.cycles = emu.total
       /\ PpuTicks = 21 + 3 * emu.total - emu.left
       /\ apu.cycle = 7 + emu.total - emu.cpu_cycles
  /\ emu.phase = "apu" =>
       /\ cpu.cycles = emu.total
       /\ PpuTicks = 21 + 3 * emu.total
       /\ apu.cycle = 7 + emu.total - emu.left

\* the last APU clock of a second iteration is about to run
C1_Witness ==
  emu.phase = "apu" /\ emu.left = 1 /\ emu.total > emu.cpu_cycles

(***************************************************************************)
(* C2.  At an instruction boundary a latched NMI is serviced whatever I    *)
(* is and before a latched IRQ, which stays latched; a latched IRQ is      *)
(* serviced when I = 0; with I = 1 and no NMI no interrupt sequence is     *)
(* started.                                                                *)
(***************************************************************************)
C2_InterruptPolling ==
  [][(ClockStep /\ AtBoundary) =>
       /\ bus.nmi_pending =>
            /\ SequenceStarted
            /\ cpu'.pc = NmiWord
            /\ ~bus'.nmi_pending
            /\ bus'.irq_pending = bus.irq_pending
       /\ (~bus.nmi_pending /\ bus.irq_pending
             /\ ~HasBit(cpu.status, INTERRUPT_DISABLE)) =>
            SequenceStarted /\ cpu'.pc = IrqWord
       /\ (~bus.nmi_pending /\ HasBit(cpu.status, INTERRUPT_DISABLE)) =>
            ~SequenceStarted
       /\ (~bus.nmi_pending /\ ~bus.irq_pending) => ~SequenceStarted
    ]_vars

\* an IRQ sequence has just started
C2_Witness ==
  /\ obs.act = "clock"
  /\ cpu.cycles_remaining = 6
  /\ ~cpu.current_instruction.some
  /\ cpu.pc = IrqWord

(***************************************************************************)
(* C3.  A clock with cycles remaining neither polls nor consumes the       *)
(* latches and starts no interrupt sequence: the CPU and the RAM after it  *)
(* are what they would be with both latches clear, bonus cycles included.  *)
(***************************************************************************)
C3_NoPollInFlight ==
  [][(ClockStep /\ ~AtBoundary) =>
       /\ bus'.nmi_pending = bus.nmi_pending
       /\ bus'.irq_pending = bus.irq_pending
       /\ ~SequenceStarted
       /\ \E inp \in OperandInputs(Machine) :
            LET quiet == [Machine EXCEPT !.bus.nmi_pending = FALSE,
                                         !.bus.irq_pending = FALSE]
                q == Commit(quiet, inp)
            IN cpu' = q.cpu /\ bus'.ram = q.bus.ram
    ]_vars

\* an NMI is latched while a bonus cycle of a committed instruction remains
C3_Witness ==
  /\ obs.act = "clock"
  /\ bus.nmi_pending
  /\ cpu.cycles_remaining = 1
  /\ ~cpu.current_instruction.some
  /\ cpu.pc \notin {NmiWord, IrqWord}

(***************************************************************************)
(* C4.  Servicing an NMI or IRQ pushes PCH, PCL and P with B = 0 and       *)
(* U = 1, sets I, loads PC from $FFFA or $FFFE and leaves 6 more cycles in *)
(* which nothing is fetched or executed; BRK pushes PC + 1, the address    *)
(* past its padding byte, and P with B = 1 and loads PC from $FFFE, 7      *)
(* cycles in all.                                                          *)
(***************************************************************************)
C4_InterruptSequence ==
  [][ClockStep =>
       /\ (AtBoundary /\ bus.nmi_pending) =>
            PushedAndVectored(cpu.pc, FALSE, NmiWord) /\ SequenceStarted
       /\ (AtBoundary /\ ~bus.nmi_pending /\ bus.irq_pending
             /\ ~HasBit(cpu.status, INTERRUPT_DISABLE)) =>
            PushedAndVectored(cpu.pc, FALSE, IrqWord) /\ SequenceStarted
       /\ (~AtBoundary /\ ~cpu.current_instruction.some) =>
            /\ cpu' = [cpu EXCEPT !.cycles_remaining = @ - 1,
                                  !.cycles = @ + 1]
            /\ bus' = bus
       /\ (AtBoundary /\ cpu'.current_instruction.some
             /\ cpu'.current_instruction.op.instruction = "BRK") =>
            cpu'.cycles_remaining = 6
       /\ Commits({"BRK"}) =>
            /\ PushedAndVectored(W16(cpu.pc + 1), TRUE, IrqWord)
            /\ cpu'.cycles_remaining = 0
    ]_vars

\* an NMI sequence taken right after reset has run its 7 cycles
C4_Witness ==
  /\ obs.act = "clock"
  /\ cpu.cycles = 7
  /\ cpu.cycles_remaining = 0
  /\ cpu.pc = NmiWord
  /\ cpu.sp = 250
  /\ RamAt(bus.ram, STACK + 251) = INTERRUPT_DISABLE + UNUSED
  /\ Word(RamAt(bus.ram, STACK + 252), RamAt(bus.ram, STACK + 253)) = ResetWord

(***************************************************************************)
(* C5.  After reset and after every completed instruction or interrupt     *)
(* sequence bit 5 (U) of the status register is 1.                         *)
(***************************************************************************)
C5_UnusedAlwaysSet ==
  (obs.act # "new" /\ cpu.cycles_remaining = 0) =>
     HasBit(cpu.status, UNUSED)

(***************************************************************************)
(* C6.  Bit 4 (B) of the status register is never set; the status bytes    *)
(* pushed by PHP and BRK carry B = 1 and those pushed by an NMI or IRQ     *)
(* carry B = 0.                                                            *)
(***************************************************************************)
C6_BreakNeverLive ==
  /\ [](~HasBit(cpu.status, BREAK_COMMAND))
  /\ [][ClockStep =>
          /\ Commits({"PHP", "BRK"}) =>
               HasBit(StackAfter(W8(cpu'.sp + 1)), BREAK_COMMAND)
          /\ SequenceStarted =>
               ~HasBit(StackAfter(W8(cpu'.sp + 1)), BREAK_COMMAND)
       ]_vars

\* PHP then PLP after reset: the byte pulled had B set
C6_Witness ==
  /\ obs.act = "clock"
  /\ cpu.cycles = 7
  /\ cpu.cycles_remaining = 0
  /\ cpu.sp = STACK_RESET
  /\ cpu.a = 0
  /\ HasBit(RamAt(bus.ram, STACK + STACK_RESET), BREAK_COMMAND)

(***************************************************************************)
(* C7.  After reset(), from any state, A = X = Y = 0, P = I|U, SP = $FD    *)
(* and PC is the word stored at $FFFC/$FFFD.                               *)
(***************************************************************************)
C7_ResetRegisters ==
  obs.act = "reset" =>
    /\ cpu.a = 0 /\ cpu.x = 0 /\ cpu.y = 0
    /\ cpu.status = INTERRUPT_DISABLE + UNUSED
    /\ cpu.sp = STACK_RESET
    /\ cpu.pc = ResetWord

(***************************************************************************)
(* C8.  In 4-step mode with irq_inhibit clear and no $4017 write the       *)
(* frame-IRQ flag is raised at sequencer cycles 29828 and 29829 of every   *)
(* 29830-cycle period and nowhere else, stays set, with bit 6 of $4015     *)
(* and the IRQ line, until $4015 is read, and that read returns bit 6 set  *)
(* and clears it.                                                          *)
(***************************************************************************)
FourStepPeriod == 29830

FiveStepPeriod == 37282

\* the sequencer cycle of the last clock when $4017 was never written
Seq4 == apu.cycle % FourStepPeriod

C8_FrameIrq ==
  /\ [](obs.writes = 0 =>
          /\ (obs.act = "apu_clock" /\ Seq4 \in {29828, 29829}) =>
               apu.frame_counter.irq_flag
          /\ apu.frame_counter.irq_flag =>
               /\ apu.frame_irq
               /\ HasBit(StatusByte(apu), 64)
               /\ irq_pending(apu)
          /\ obs.act = "read_status" =>
               /\ ~apu.frame_counter.irq_flag
               /\ ~apu.frame_irq
               /\ ~HasBit(StatusByte(apu), 64))
  /\ [][obs'.writes = 0 =>
          /\ (~apu.frame_counter.irq_flag /\ apu'.frame_counter.irq_flag) =>
               /\ obs'.act = "apu_clock"
               /\ (apu'.cycle % FourStepPeriod) \in {29828, 29829}
          /\ (apu.frame_counter.irq_flag /\ obs'.act # "read_status") =>
               apu'.frame_counter.irq_flag
          /\ (apu.frame_counter.irq_flag /\ obs'.act = "read_status") =>
               HasBit(obs'.status, 64)
       ]_vars

\* the flag raised in the second period has been read and cleared
C8_Witness ==
  /\ obs.writes = 0
  /\ obs.act = "read_status"
  /\ HasBit(obs.status, 64)
  /\ apu.cycle > FourStepPeriod + 29828

(***************************************************************************)
(* C9.  In 4-step mode with no $4017 write a clock signals a quarter frame *)
(* exactly at sequencer cycles 7457, 14913, 22371 and 29829 and a half     *)
(* frame exactly at 14913 and 29829, with period 29830.                    *)
(***************************************************************************)
C9_FourStepSignals ==
  (obs.writes = 0 /\ obs.act = "apu_clock") =>
     /\ apu.frame_counter.mode = "FourStep"
     /\ obs.sg.clock_envelopes <=> Seq4 \in {7457, 14913, 22371, 29829}
     /\ obs.sg.clock_length <=> Seq4 \in {14913, 29829}

\* the first quarter frame of the second period
C9_Witness ==
  /\ obs.writes = 0
  /\ obs.act = "apu_clock"
  /\ apu.cycle = FourStepPeriod + 7457
  /\ obs.sg.clock_envelopes

(***************************************************************************)
(* C10.  In 5-step mode, on clocks other than the one a $4017 write takes  *)
(* effect on, a quarter frame is signalled exactly at sequencer cycles     *)
(* 7457, 14913, 22371 and 37281 and a half frame exactly at 14913 and      *)
(* 37281, with period 37282, and the frame-IRQ flag is never set.          *)
(***************************************************************************)
\* the sequencer cycle of the last clock, counted from the last restart
Seq5 == (apu.cycle - obs.restart_at) % FiveStepPeriod

C10_FiveStepSignals ==
  /\ []((apu.frame_counter.mode = "FiveStep" /\ obs.act = "apu_clock"
           /\ ~obs.applied /\ ~apu.frame_counter.pending_write.some) =>
          /\ obs.sg.clock_envelopes <=> Seq5 \in {7457, 14913, 22371, 37281}
          /\ obs.sg.clock_length <=> Seq5 \in {14913, 37281})
  /\ [][(apu.frame_counter.mode = "FiveStep"
           /\ apu'.frame_counter.mode = "FiveStep") =>
          (apu'.frame_counter.irq_flag => apu.frame_counter.irq_flag)
       ]_vars

\* the first quarter frame of the second 5-step period
C10_Witness ==
  /\ apu.frame_counter.mode = "FiveStep"
  /\ obs.act = "apu_clock"
  /\ apu.cycle - obs.restart_at = FiveStepPeriod + 7457
  /\ obs.sg.clock_envelopes
  /\ ~apu.frame_counter.irq_flag

(***************************************************************************)
(* C11.  A $4017 write takes effect on the third APU clock after it when   *)
(* it is made with an even number of clocks elapsed and on the fourth      *)
(* when that number is odd.                                                *)
(***************************************************************************)
C11_WriteDelayParity ==
  (obs.act = "apu_clock" /\ obs.applied) =>
     apu.cycle - obs.write_at = IF obs.write_at % 2 = 0 THEN 3 ELSE 4

(***************************************************************************)
(* C12.  From a $4017 write up to the clock it takes effect on the         *)
(* sequencer runs as if nothing had been written: the write changes only   *)
(* the pending byte and its delay, every clock of the window gives the     *)
(* mode, irq_inhibit, cycle count, frame-IRQ flag and signals the          *)
(* unwritten sequencer gives, and a $4015 read returns and clears the      *)
(* frame-IRQ bit of that sequencer.                                        *)
(***************************************************************************)
\* the Apu with the pending $4017 write taken away
Unwritten(a) ==
  [a EXCEPT !.frame_counter.pending_write = NoWrite,
            !.frame_counter.write_delay_counter = 0]

C12_OldModeContinues ==
  [][/\ obs'.act = "write_4017" => Unwritten(apu') = Unwritten(apu)
     /\ (obs'.act = "apu_clock" /\ apu'.cycle = apu.cycle + 1
          /\ apu.frame_counter.write_delay_counter > 1) =>
          LET q == apu_clock(Unwritten(apu))
          IN /\ Unwritten(apu') = q.a
             /\ obs'.sg = q.sg
             /\ apu'.frame_counter.pending_write = apu.frame_counter.pending_write
     /\ (obs'.act = "read_status"
          /\ apu.frame_counter.pending_write.some) =>
          /\ HasBit(obs'.status, 64) = Unwritten(apu).frame_irq
          /\ Unwritten(apu') = read_status(Unwritten(apu)).a
          /\ apu'.frame_counter.pending_write = apu.frame_counter.pending_write
    ]_vars

\* a byte with irq_inhibit set is pending and a read has just returned the
\* frame-IRQ bit the 4-step sequencer raised inside the window
C12_Witness ==
  /\ obs.act = "read_status"
  /\ HasBit(obs.status, 64)
  /\ apu.frame_counter.pending_write.some
  /\ HasBit(apu.frame_counter.pending_write.value, 64)
  /\ apu.frame_counter.mode = "FourStep"


(***************************************************************************)
(* C13: after $00 is written to $4015, the length counters of pulse 1,     *)
(* pulse 2, triangle and noise are all 0 and the DMC has no bytes          *)
(* remaining.                                                              *)
(***************************************************************************)
C13_StatusZeroSilences ==
  (obs.act = "cpu_write" /\ obs.address = 16405 /\ obs.value = 0) =>
     /\ apu.pulse_1.length_counter = 0
     /\ apu.pulse_2.length_counter = 0
     /\ apu.triangle.length_counter = 0
     /\ apu.noise.length_counter = 0
     /\ apu.dmc.bytes_remaining = 0

\* the write found pulse 1's length counter and the DMC's byte count non-zero
C13_Witness ==
  /\ obs.act = "cpu_write" /\ obs.address = 16405 /\ obs.value = 0
  /\ HasBit(obs.pre, 1) /\ HasBit(obs.pre, 16)
  /\ StatusByte(apu) % 32 = 0

(***************************************************************************)
(* C14: while the enabled bit of pulse 1, pulse 2, triangle or noise is    *)
(* clear, that channel's length counter is 0, whatever was written to the  *)
(* channel's registers ($4003, $4007, $400B, $400F included) and however   *)
(* often the APU was clocked.                                              *)
(***************************************************************************)
C14_DisabledStaysZero ==
  /\ ~apu.pulse_1.enabled => apu.pulse_1.length_counter = 0
  /\ ~apu.pulse_2.enabled => apu.pulse_2.length_counter = 0
  /\ ~apu.triangle.enabled => apu.triangle.length_counter = 0
  /\ ~apu.noise.enabled => apu.noise.length_counter = 0

(***************************************************************************)
(* C15: a clock of the APU that carries the half-frame signal lowers each  *)
(* length counter by exactly 1 when it is non-zero and its halt flag is    *)
(* clear, and leaves it alone otherwise; a clock without the signal        *)
(* leaves every length counter alone; no counter goes below 0.             *)
(***************************************************************************)
Clocked(halt, before, after, half) ==
  /\ after >= 0
  /\ after = IF half /\ ~halt /\ before > 0 THEN before - 1 ELSE before

C15_HalfFrameDecrement ==
  [][obs'.act = "apu_clock" /\ apu'.cycle = apu.cycle + 1 =>
       LET half == obs'.sg.clock_length
       IN /\ Clocked(apu.pulse_1.length_counter_halt,
                     apu.pulse_1.length_counter,
                     apu'.pulse_1.length_counter, half)
          /\ Clocked(apu.pulse_2.length_counter_halt,
                     apu.pulse_2.length_counter,
                     apu'.pulse_2.length_counter, half)
          /\ Clocked(apu.triangle.counter_halt,
                     apu.triangle.length_counter,
                     apu'.triangle.length_counter, half)
          /\ Clocked(apu.noise.length_counter_halt,
                     apu.noise.length_counter,
                     apu'.noise.length_counter, half)
    ]_vars

\* a half-frame clock took pulse 1 from its loaded 2 to 1 while the halted
\* pulse 2 kept its loaded 254
C15_Witness ==
  /\ obs.act = "apu_clock" /\ obs.sg.clock_length
  /\ ~apu.pulse_1.length_counter_halt /\ apu.pulse_1.length_counter = 1
  /\ apu.pulse_2.length_counter_halt /\ apu.pulse_2.length_counter = 254


(***************************************************************************)
(* C16: after $01 and then $00 are written to $4016, the next eight reads  *)
(* of $4016 return the A, B, Select, Start, Up, Down, Left and Right bits  *)
(* of the button state the strobe latched, in this order, and every        *)
(* further read returns 1 until the next strobe.                           *)
(***************************************************************************)
C16_LatchedButtons ==
  (obs.act = "pad_read" /\ obs.latched >= 0) =>
     obs.bit = IF obs.reads <= 8
               THEN (obs.latched \div (2 ^ (obs.reads - 1))) % 2
               ELSE 1


(***************************************************************************)
(* C17: Ppu::tick returns true exactly on its calls number 89342 * k,      *)
(* k = 1, 2, ...; each such call takes the scanline from 261 to 0 and      *)
(* adds 1 to the frame number, and no other call changes the frame number. *)
(***************************************************************************)
C17_FramePeriod ==
  [][obs'.act = "tick" /\ obs'.ticks = obs.ticks + 1 =>
       /\ obs'.new_frame <=> obs'.ticks % 89342 = 0
       /\ obs'.new_frame =>
            /\ ppu.scanline = 261 /\ ppu'.scanline = 0
            /\ ppu'.frame = ppu.frame + 1
       /\ ~obs'.new_frame => ppu'.frame = ppu.frame
    ]_vars

\* the second frame completed on call 178684
C17_Witness ==
  obs.act = "tick" /\ obs.new_frame /\ obs.ticks = 2 * 89342 /\ ppu.frame = 2

(***************************************************************************)
(* C18: the VBlank bit of the status register is set by the tick that      *)
(* reaches scanline 241, cycle 1, and by no other tick; that tick raises   *)
(* the NMI edge when bit 7 of CTRL is set and copies scroll x, scroll y    *)
(* and the nametable base into the render copies.                          *)
(***************************************************************************)
C18_VBlankAtCycleOne ==
  [][obs'.act = "tick" /\ obs'.ticks = obs.ticks + 1 =>
       LET reached == ppu'.scanline = 241 /\ ppu'.cycle = 1
           set_now == ~HasBit(ppu.status, VBLANK_STARTED)
                        /\ HasBit(ppu'.status, VBLANK_STARTED)
       IN /\ set_now <=> reached
          /\ reached =>
               /\ HasBit(ppu.ctrl, GENERATE_NMI) => obs'.nmi
               /\ ppu'.render_scroll_x = ppu.scroll_x
               /\ ppu'.render_scroll_y = ppu.scroll_y
               /\ ppu'.render_nametable_addr = nametable_addr(ppu.ctrl)
    ]_vars

(***************************************************************************)
(* C19: a read of $2002 returns the status register as it was before the   *)
(* read and leaves the VBlank bit clear; of two reads with no tick in      *)
(* between, the first returns the VBlank bit as it was and the second      *)
(* returns it as 0.                                                        *)
(***************************************************************************)
C19_StatusReadClears ==
  [][obs'.act = "read_2002" /\ obs'.reads = obs.reads + 1 =>
       /\ obs'.status = ppu.status
       /\ ~HasBit(ppu'.status, VBLANK_STARTED)
       /\ ppu'.status = RemoveBit(ppu.status, VBLANK_STARTED)
       /\ obs'.reads = 2 => ~HasBit(obs'.status, VBLANK_STARTED)
    ]_vars

\* two reads in VBlank with no tick in between returned 1 and then 0
C19_Witness ==
  /\ obs.act = "read_2002" /\ obs.reads = 2
  /\ HasBit(obs.first, VBLANK_STARTED) /\ ~HasBit(obs.status, VBLANK_STARTED)


(***************************************************************************)
(* C20: after two writes to $2006 that set the VRAM address to a, a below  *)
(* $3000, the first read of $2007 returns what the internal read buffer    *)
(* held before and the second read returns the byte stored at a, whether   *)
(* the VRAM increment is 1 or 32.                                          *)
(***************************************************************************)
C20_BufferedRead ==
  (obs.act = "read_2007" /\ obs.latched >= 0 /\ obs.latched < 12288) =>
     /\ ~obs.fault
     /\ obs.reads = 1 => obs.status = obs.pre
     /\ obs.reads = 2 => obs.status = obs.first

(***************************************************************************)
(* C21: a $2007 read at $3F10, $3F14, $3F18 or $3F1C returns the byte a    *)
(* read at $3F00, $3F04, $3F08 or $3F0C returns, whatever was written      *)
(* through $2007 before, and a byte written through either address of a    *)
(* pair is read back through both.                                         *)
(***************************************************************************)
PalettePairs == {<<16128 + k, 16144 + k>> : k \in {0, 4, 8, 12}}

\* what a $2007 read answers once the VRAM address is the given one
ReadAt(address) ==
  read_data([ppu EXCEPT !.addr = addr_set(@, address)])

C21_PaletteMirrors ==
  \A pr \in PalettePairs :
    /\ ~ReadAt(pr[1]).fault /\ ~ReadAt(pr[2]).fault
    /\ ReadAt(pr[1]).result = ReadAt(pr[2]).result
    /\ (obs.act = "write_2007" /\ obs.address \in {pr[1], pr[2]}) =>
         /\ ~obs.fault
         /\ ReadAt(pr[1]).result = obs.value
         /\ ReadAt(pr[2]).result = obs.value

\* a byte written at $3F14 is read back at $3F04
C21_Witness ==
  /\ obs.act = "write_2007" /\ obs.address = 16148 /\ obs.value = 34
  /\ ReadAt(16132).result = 34

(***************************************************************************)
(* C22: a write of byte hi to $4014 while OAMADDR = k leaves               *)
(* OAM[(k + i) mod 256] equal to the byte the bus returns for address      *)
(* hi * 256 + i, for every i in 0..255, and leaves OAMADDR equal to k.     *)
(***************************************************************************)
C22_OamDmaCopies ==
  obs.act = "write_4014" =>
    /\ ppu.oam_addr = obs.pre
    /\ \A i \in 0..255 :
         RamAt(ppu.oam_data, (obs.pre + i) % 256) =
           BusRead(Machine, obs.value * 256 + i, 0)

\* page 2 went to OAM from OAMADDR 255 on: $0200 sits in OAM[255] and
\* $0201 in OAM[0]
C22_Witness ==
  /\ obs.act = "write_4014" /\ obs.value = 2 /\ obs.pre = 255
  /\ RamAt(bus.ram, 512) = 17 /\ RamAt(ppu.oam_data, 255) = 17
  /\ RamAt(bus.ram, 513) = 34 /\ RamAt(ppu.oam_data, 0) = 34

(***************************************************************************)
(* C23: a write to $4014 stalls the CPU for 513 cycles, or 514 when the    *)
(* DMA begins on an odd CPU cycle, and the PPU is advanced by 3 ticks and  *)
(* the APU by 1 clock for each stall cycle: the step that stores to $4014  *)
(* returns the cycles of the store plus the stall, and run_frame then      *)
(* runs three PPU ticks for each of them.                                  *)
(***************************************************************************)
C23_DmaStallsCpu ==
  obs.act = "write_4014" =>
    /\ emu.cpu_cycles - obs.first = IF obs.pre % 2 = 1 THEN 514 ELSE 513
    /\ emu.phase = "ppu"
    /\ emu.left = 3 * emu.cpu_cycles

(***************************************************************************)
(* C24: Cartridge::load returns an error when the data is shorter than the *)
(* 16-byte header, the magic is not NES\x1A, the mapper number is neither  *)
(* 0 nor 2, or the data is shorter than header + optional 512-byte trainer *)
(* + the PRG and CHR sizes the header declares; it succeeds for every      *)
(* other image, whose mapper number is then 0 or 2.                        *)
(***************************************************************************)
MapperNumberOf(head) == (head[8] \div 16) * 16 + (head[7] \div 16)

DeclaredLength(head) ==
  HeaderSize + (IF HasBit(head[7], 4) THEN TrainerSize ELSE 0)
    + head[5] * PRG_ROM_BANK_SIZE + head[6] * CHR_ROM_BANK_SIZE

IllFormed(data) ==
  \/ data.len < HeaderSize
  \/ SubSeq(data.head, 1, 4) # NES_TAG
  \/ MapperNumberOf(data.head) \notin {0, 2}
  \/ data.len < DeclaredLength(data.head)

C24_LoadAcceptsMappers0And2 ==
  obs.act = "load" => (obs.fault <=> IllFormed(rom))

(***************************************************************************)
(* C25: on the clock at which a pending $4017 write takes effect the       *)
(* cycle counter restarts from 0 (this clock is the first counted), the    *)
(* mode and irq_inhibit of the written byte apply, and the clock gives     *)
(* both the quarter-frame and the half-frame signal if the new mode is     *)
(* 5-step and neither of them if it is 4-step.                             *)
(***************************************************************************)
C25_ApplyRestartsSequencer ==
  [][ (obs'.act = "apu_clock" /\ obs'.applied) =>
        LET value == apu.frame_counter.pending_write.value
            five == HasBit(value, 128)
            f == apu'.frame_counter
        IN /\ apu.frame_counter.pending_write.some
           /\ f.cycle_counter = 1
           /\ f.mode = (IF five THEN "FiveStep" ELSE "FourStep")
           /\ f.irq_inhibit = HasBit(value, 64)
           /\ ~f.pending_write.some
           /\ obs'.sg.clock_envelopes = five
           /\ obs'.sg.clock_length = five ]_vars

\* a write of the 5-step mode took effect after the sequencer had run in
\* 4-step mode past its first quarter frame
C25_Witness ==
  /\ obs.act = "apu_clock" /\ obs.applied
  /\ obs.write_at >= 29824
  /\ apu.frame_counter.mode = "FiveStep"
  /\ apu.frame_counter.cycle_counter = 1
  /\ obs.sg.clock_envelopes /\ obs.sg.clock_length

(***************************************************************************)
(* C26: a write to $4017 of a byte with bit 6 (irq_inhibit) set clears     *)
(* the frame-IRQ flag at once: right after the write the flag is clear     *)
(* and a read of $4015 returns bit 6 clear, before the write delay has     *)
(* expired.                                                                *)
(***************************************************************************)
C26_InhibitClearsAtOnce ==
  (obs.act = "write_4017" /\ apu.frame_counter.pending_write.some
     /\ HasBit(apu.frame_counter.pending_write.value, 64)) =>
    /\ ~apu.frame_counter.irq_flag
    /\ ~HasBit(read_status(apu).status, 64)

(***************************************************************************)
(* C27: the tick that reaches scanline 261, cycle 1 leaves the VBlank,     *)
(* sprite-0-hit and sprite-overflow bits of the status register clear,     *)
(* whatever they were before; and the VBlank bit is never set while the    *)
(* scanline is in 0..240.                                                  *)
(***************************************************************************)
C27_PreRenderClearsStatus ==
  /\ (obs.act = "tick" /\ ppu.scanline = LastScanline /\ ppu.cycle = 1) =>
       /\ ~HasBit(ppu.status, VBLANK_STARTED)
       /\ ~HasBit(ppu.status, SPRITE_0_HIT)
       /\ ~HasBit(ppu.status, SPRITE_OVERFLOW)
  /\ ppu.scanline \in 0..240 => ~HasBit(ppu.status, VBLANK_STARTED)

\* the clearing tick found the VBlank and sprite-0-hit bits set
C27_Witness ==
  /\ obs.act = "tick" /\ ppu.scanline = LastScanline /\ ppu.cycle = 1
  /\ HasBit(obs.pre, VBLANK_STARTED) /\ HasBit(obs.pre, SPRITE_0_HIT)
  /\ ppu.status = 0

(***************************************************************************)
(* C28: $2005 and $2006 share one write latch.  Every write to either      *)
(* register flips it, so a write is taken as the first of its pair exactly *)
(* when an even number of writes to the two registers went before it since *)
(* the latch was last reset; after one write to $2005 the next write to    *)
(* $2006 is the low byte, and vice versa.  A read of $2002 returns both    *)
(* registers to the first-write state.                                     *)
(***************************************************************************)
C28_SharedWriteLatch ==
  /\ obs.act \in {"write_2005", "write_2006"} =>
       (obs.first = 1 <=> obs.pre % 2 = 0)
  /\ obs.act = "read_2002" => (ppu.addr.latch /\ ppu.scroll_latch)

(***************************************************************************)
(* C29: after a latch reset, a write of h and then a write of l to $2006   *)
(* set the VRAM address to ((h << 8) | l) & $3FFF; and after any sequence  *)
(* of $2006 writes, $2007 accesses (increment 1 or 32) and $2002 reads the *)
(* VRAM address is at most $3FFF.                                          *)
(***************************************************************************)
AddrPairSets ==
  [][ (obs.act = "write_2006" /\ ~ppu.addr.latch /\ obs'.act = "write_2006") =>
        /\ addr_get(ppu'.addr) = (obs.value * 256 + obs'.value) % 16384
        /\ ppu'.addr.latch ]_vars

C29_AddressWithin14Bits ==
  /\ [](addr_get(ppu.addr) <= 16383)
  /\ [][ (obs'.act = "write_2006" /\ ppu.addr.latch) => ~ppu'.addr.latch ]_vars
  /\ AddrPairSets

\* h = $FF and then l = $FF, written from the first-write state, gave $3FFF
C29_Witness ==
  /\ obs.act = "write_2006" /\ obs.value = 255
  /\ ppu.addr.latch
  /\ addr_get(ppu.addr) = 16383

(***************************************************************************)
(* C30: for every address in $2000..$2FFF the nametable slots (0,1,2,3)    *)
(* map to the physical slots (0,0,1,1) under Horizontal mirroring and to   *)
(* (0,1,0,1) under Vertical mirroring, a single-screen mirroring maps all  *)
(* four slots to one physical slot, and under every mirroring the index    *)
(* into the 2 KiB VRAM is below 2048.                                      *)
(***************************************************************************)
PhysicalSlot(mirroring, slot) ==
  CASE mirroring = "Horizontal" -> slot \div 2
    [] mirroring = "Vertical" -> slot % 2
    [] mirroring = "SingleScreenLower" -> 0
    [] mirroring = "SingleScreenUpper" -> 1
    [] OTHER -> -1

C30_NametableMirroring ==
  obs.act = "mirror_vram_address" =>
    LET slot == (obs.address - 8192) \div 1024
        physical == PhysicalSlot(ppu.cartridge.mirroring, slot)
    IN /\ obs.latched < VramSize
       /\ physical >= 0 =>
            obs.latched = physical * 1024 + (obs.address % 1024)

(***************************************************************************)
(* C31: a write to $2000 that changes bit 7 from 0 to 1 while the VBlank   *)
(* status bit is set re-arms the NMI at once: by the end of the PPU ticks  *)
(* that follow the storing instruction, that is before the next            *)
(* instruction boundary, an NMI has been latched on the bus.               *)
(***************************************************************************)
C31_CtrlWriteRearmsNmi ==
  (obs.first = 1 /\ obs.act = "tick" /\ obs.reads = StoreTicks) => obs.nmi

(***************************************************************************)
(* C32: each interrupt latch of the bus is armed by a trigger call and     *)
(* consumed by one poll.  A poll returns true exactly when its latch was   *)
(* triggered, once or more, since the last poll of that latch, and each    *)
(* latch is set exactly when such triggers are outstanding, so a poll of   *)
(* one latch never changes the other.                                      *)
(***************************************************************************)
C32_LatchesConsumedOnce ==
  /\ obs.act \in {"poll_nmi", "poll_irq"} => (obs.nmi <=> obs.pre > 0)
  /\ bus.nmi_pending <=> obs.reads > 0
  /\ bus.irq_pending <=> obs.ticks > 0

\* two trigger_nmi calls were consumed by one poll while the IRQ latch,
\* triggered before, stayed armed
C32_Witness ==
  /\ obs.act = "poll_nmi" /\ obs.nmi /\ obs.pre = 2
  /\ ~bus.nmi_pending /\ bus.irq_pending

(***************************************************************************)
(* C33: for every operand byte b and register values the ZeroPageX         *)
(* effective address is (b + X) mod 256 and the ZeroPageY effective        *)
(* address is (b + Y) mod 256; both lie in $0000..$00FF and never report   *)
(* a page cross.                                                           *)
(***************************************************************************)
C33_ZeroPageIndexed ==
  /\ obs.act = "ZeroPageX" => obs.address = (obs.value + cpu.x) % 256
  /\ obs.act = "ZeroPageY" => obs.address = (obs.value + cpu.y) % 256
  /\ obs.act \in ZeroPageModes => (obs.address \in 0..255 /\ obs.bit = 0)

(***************************************************************************)
(* C34: the number of CPU cycles from the fetch of an instruction to the   *)
(* next fetch equals the base count of its entry of the opcode table, plus *)
(* 1 if its effective address crossed a page and the entry is flagged for  *)
(* a page-cross cycle; for a branch it is the base count when not taken,   *)
(* base + 1 when taken within the page and base + 2 when taken to another  *)
(* page.                                                                   *)
(***************************************************************************)
TableCycles(opcode, crossed, outcome) ==
  LET entry == OPCODES(opcode)
  IN entry.cycles
       + (IF entry.additional_cycle_on_branch_taken THEN outcome
          ELSE IF entry.additional_cycle_on_page_cross THEN crossed ELSE 0)

C34_CyclesPerTable ==
  (obs.act = "clock" /\ obs.latched >= 0 /\ cpu.cycles_remaining = 0)
    => cpu.cycles - obs.pre = TableCycles(obs.latched, obs.bit, obs.first)

(***************************************************************************)
(* C40: for every official opcode byte, the addressing mode, byte length   *)
(* and base cycle count the decoder produces equal those of the entry for  *)
(* that byte in the opcode table.                                          *)
(***************************************************************************)
C40_DecoderMatchesTable ==
  obs.act = "fetch" =>
    LET op == cpu.current_instruction.op
        entry == OPCODES(obs.value)
    IN /\ op.mode = entry.mode
       /\ op.bytes = entry.size_bytes
       /\ op.cycles = entry.cycles

(***************************************************************************)
(* C35: the DMC interrupt flag changes from clear to set only on a sample  *)
(* fetch that brings the bytes remaining to 0 while loop = 0 and           *)
(* irq-enable = 1; when loop = 1 the same fetch instead reloads the        *)
(* sample address and the bytes remaining from the configured values and   *)
(* leaves the interrupt flag unchanged.                                    *)
(***************************************************************************)
LastFetch == obs.act = "apu_clock" /\ obs.reads = 1 /\ obs.pre = 1

C35_DmcInterruptOnLastFetch ==
  /\ (obs.first = 0 /\ apu.dmc.interrupt_flag)
       => (LastFetch /\ obs.bit = 0 /\ obs.status = 1)
  /\ (LastFetch /\ obs.bit = 1)
       => /\ apu.dmc.current_address = apu.dmc.sample_address
          /\ apu.dmc.bytes_remaining = apu.dmc.sample_length
          /\ apu.dmc.interrupt_flag <=> obs.first = 1

\* the flag rose on a fetch by the output unit's eighth clock
C35_Witness ==
  /\ LastFetch /\ obs.bit = 0 /\ obs.status = 1
  /\ obs.first = 0 /\ apu.dmc.interrupt_flag
  /\ apu.cycle > DMC_RATE_TABLE[1]

(***************************************************************************)
(* C36: an APU IRQ asserted while I = 1 is not lost: while the frame-IRQ   *)
(* or DMC-IRQ flag stays set, the CPU services the IRQ at the first        *)
(* instruction boundary after I becomes 0, however many times the IRQ      *)
(* latch was polled while I was 1.                                         *)
(***************************************************************************)
IrqServiced ==
  /\ cpu.pc = read_u16(Machine, IRQ_VECTOR, <<0, 0>>)
  /\ HasBit(cpu.status, INTERRUPT_DISABLE)
  /\ ~cpu.current_instruction.some
  /\ cpu.cycles_remaining = 6

C36_IrqNotLost ==
  (obs.act = "clock" /\ obs.first = 1) => IrqServiced

\* serviced after the latch had been polled with I set on at least two
\* boundaries since the flag rose: the flag rises after the boundary at CPU
\* cycle 29822, and the APU has run 7 clocks more than the CPU
C36_Witness ==
  /\ obs.act = "clock" /\ obs.first = 1 /\ IrqServiced
  /\ apu.cycle >= FrameIrqClock + 5

(***************************************************************************)
(* C37: if $4017 is written again before an earlier pending write has      *)
(* taken effect, the earlier byte never takes effect: exactly one mode     *)
(* change and counter reset occurs, using the later byte, and its delay    *)
(* is counted from the later write.                                        *)
(***************************************************************************)
ModeOf(value) == IF HasBit(value, 128) THEN "FiveStep" ELSE "FourStep"

C37_LaterWriteReplacesEarlier ==
  /\ (obs.act = "apu_clock" /\ obs.applied) =>
       /\ apu.cycle = obs.write_at + WriteDelay
       /\ apu.frame_counter.mode = ModeOf(obs.value)
       /\ apu.frame_counter.irq_inhibit = HasBit(obs.value, 64)
       /\ apu.frame_counter.cycle_counter = 1
  /\ obs.reads =
       obs.writes - obs.ticks
         - (IF apu.frame_counter.pending_write.some THEN 1 ELSE 0)

\* a write of $00 replaced by a write of $C0 two clocks later, which took
\* effect alone
C37_Witness ==
  /\ obs.act = "apu_clock" /\ obs.applied
  /\ obs.writes = 2 /\ obs.ticks = 1 /\ obs.reads = 1
  /\ obs.pre = 0 /\ obs.value = 192 /\ obs.write_at = 2
  /\ apu.frame_counter.mode = "FiveStep"

(***************************************************************************)
(* C38: while CTRL bit 7 is left unchanged, at most one NMI is latched on  *)
(* the bus between two consecutive VBlank starts, for any interleaving of  *)
(* $2002 reads with PPU ticks: poll_nmi returns true on at most one tick   *)
(* per VBlank period.                                                      *)
(***************************************************************************)
C38_OneNmiPerVBlank == obs.reads <= 1

\* the NMI of the second VBlank start, after two reads of $2002
C38_Witness ==
  /\ obs.act = "tick" /\ obs.nmi /\ obs.reads = 1
  /\ obs.first = 2 /\ obs.writes = MaxVblReads

(***************************************************************************)
(* C39: a $2007 read or write with the VRAM address anywhere in            *)
(* $3F00..$3FFF completes without a fault and accesses one of the 32       *)
(* palette entries; the only PPU data addresses that are fatal are those   *)
(* in $3000..$3EFF.                                                        *)
(***************************************************************************)
C39_PaletteRangeNeverFaults ==
  obs.act \in {"read_2007", "write_2007"} =>
    /\ obs.address \in 16128..16383 =>
         (~obs.fault /\ PaletteIndex(obs.address) \in 0..31)
    /\ obs.fault => obs.address \in 12288..16127

====
